---- MODULE Spec2Model ----
(***************************************************************************)
(* Model of the Gravitee AI Agent Inspector server                         *)
(* (src/agent-live-graph/server.js): the TCP reporter ingestion path       *)
(* (processEvent), the classifiers (classify, fAgent, fCurrency, fLLM,     *)
(* fMCP, fOther), the single event buffer with its two timers              *)
(* (flushBuffer) and the broadcast of progress / live-steps messages.      *)
(*                                                                         *)
(* Strings are TLA+ strings, with startsWith / includes / slice computed   *)
(* on their characters.  JSON.parse is the table JSONparse over the bodies *)
(* the model feeds in.  Timers are tasks of the Node timer queue:          *)
(* setTimeout adds one, clearTimeout removes one, and time passes only up  *)
(* to the earliest pending deadline.                                       *)
(***************************************************************************)
EXTENDS Integers, Sequences, FiniteSets, TLC

\* ------------------------------------------------------------------------
\* Program constants
\* ------------------------------------------------------------------------
MAX_WAIT_MS == 60000
FLUSH_DELAY_MS == 500
SEEN_MAX == 5000
SEEN_EVICT == 2500
A2A_MAX == 500
A2A_EVICT == 250

\* the value null of a field that the code sets to null
null == "<null>"

\* ------------------------------------------------------------------------
\* Generic helpers
\* ------------------------------------------------------------------------
SetMin(S) == CHOOSE x \in S : \A y \in S : x <= y

\* s.startsWith(p)
StartsWith(s, p) == Len(s) >= Len(p) /\ SubSeq(s, 1, Len(p)) = p

\* s.includes(p)
Includes(s, p) ==
    \E i \in 1..(Len(s) + 1) :
        i + Len(p) - 1 <= Len(s) /\ SubSeq(s, i, i + Len(p) - 1) = p

\* s.length > n ? s.slice(0, n) + '...' : s       (server.js trunc)
trunc(s, n) ==
    IF s = "" THEN ""
    ELSE IF Len(s) > n THEN SubSeq(s, 1, n) \o "..." ELSE s

\* mutant of st: 200 itself is no success
st_Above200(status) ==
    IF status > 200 /\ status < 300 THEN "ok"
    ELSE IF status >= 400 /\ status < 500 THEN "warn"
    ELSE "err"

\* server.js st
st(status) ==
    IF status >= 200 /\ status < 300 THEN "ok"
    ELSE IF status >= 400 /\ status < 500 THEN "warn"
    ELSE "err"

\* ------------------------------------------------------------------------
\* JSON values: objects, arrays, strings, numbers, null / undefined
\* ------------------------------------------------------------------------
JNull == [t |-> "null"]
JUndef == [t |-> "undef"]
JStr(s) == [t |-> "str", s |-> s]
JNum(n) == [t |-> "num", n |-> n]
JArr(a) == [t |-> "arr", a |-> a]
JObj(f) == [t |-> "obj", f |-> f]

\* v.k for a value the code has already found truthy
Get(v, k) == IF v.t = "obj" /\ k \in DOMAIN v.f THEN v.f[k] ELSE JUndef

Truthy(v) ==
    CASE v.t = "null" -> FALSE
      [] v.t = "undef" -> FALSE
      [] v.t = "str" -> v.s # ""
      [] v.t = "num" -> v.n # 0
      [] OTHER -> TRUE

IsString(v) == v.t = "str"

\* the elements of an array value (an absent array is taken as [])
Elems(v) == IF v.t = "arr" THEN v.a ELSE <<>>

\* arr.find(pred): the first element with a truthy field k, or undefined
FindWith(arr, k) ==
    LET hits == {i \in 1..Len(arr) : Truthy(Get(arr[i], k))}
    IN  IF hits = {} THEN JUndef ELSE arr[SetMin(hits)]

\* the text of a string value, '' for anything falsy
StrOf(v) == IF v.t = "str" THEN v.s ELSE ""

\* ------------------------------------------------------------------------
\* The bodies the model feeds in, as JSON text, and JSON.parse on them
\* ------------------------------------------------------------------------
BodyUserMsg == "{\"params\":{\"message\":{\"parts\":[{\"text\":\"Find hotels in Paris\"}]}}}"
BodyAgentMsg == "{\"result\":{\"parts\":[{\"text\":\"Here are 3 hotels\"}]}}"
BodyA2APublish == "{\"params\":{\"message\":{\"parts\":[{\"text\":\"Hotels near the Louvre\"}]}}}"
BodyA2ASubscribe == "{\"result\":{\"artifacts\":[{\"parts\":[{\"text\":\"Two hotels found\"}]}]}}"
BodyToolsCall == "{\"method\":\"tools/call\",\"params\":{\"name\":\"getAccommodations\",\"arguments\":{\"city\":\"Paris\"}}}"
BodyToolsCallRes == "{\"result\":{\"content\":[{\"type\":\"text\",\"text\":\"[1,2,3]\"}]}}"
BodyToolsList == "{\"method\":\"tools/list\"}"
BodyToolsListRes == "{\"result\":{\"tools\":[{\"name\":\"getAccommodations\"},{\"name\":\"getBookings\"}]}}"
BodyLLMReq == "{\"model\":\"gpt-4o\",\"messages\":[{},{}],\"tools\":[{}]}"
BodyLLMRes == "{\"choices\":[{\"message\":{\"content\":\"Paris has many hotels\"}}],\"usage\":{\"total_tokens\":42}}"
BodyLLMToolRes == "{\"choices\":[{\"message\":{\"tool_calls\":[{\"function\":{\"name\":\"getAccommodations\"}}]}}]}"
BodyGuardrail == "{\"message\":\"Blocked by guard rails\"}"
BodyNotJSON == "<html>Bad Gateway</html>"
BodyToolsMap == "{\"result\":{\"tools\":{\"getAccommodations\":{}}}}"
BodyLLMContentObj == "{\"choices\":[{\"message\":{\"content\":{\"text\":\"Paris\"}}}]}"
BodyPartsText == "{\"params\":{\"message\":{\"parts\":\"Find hotels\"}}}"
BodyArtifactsMap == "{\"result\":{\"artifacts\":{\"summary\":\"done\"}}}"

TextPart(s) == JObj([text |-> JStr(s)])

\* JSON.parse(s); JNull stands for the exception that tryJSON turns into null
JSONparse(s) ==
    CASE s = BodyUserMsg ->
           JObj([params |-> JObj([message |-> JObj([parts |->
                JArr(<<TextPart("Find hotels in Paris")>>)])])])
      [] s = BodyAgentMsg ->
           JObj([result |-> JObj([parts |-> JArr(<<TextPart("Here are 3 hotels")>>)])])
      [] s = BodyA2APublish ->
           JObj([params |-> JObj([message |-> JObj([parts |->
                JArr(<<TextPart("Hotels near the Louvre")>>)])])])
      [] s = BodyA2ASubscribe ->
           JObj([result |-> JObj([artifacts |-> JArr(<<
                JObj([parts |-> JArr(<<TextPart("Two hotels found")>>)])>>)])])
      [] s = BodyToolsCall ->
           JObj([method |-> JStr("tools/call"),
                 params |-> JObj([name |-> JStr("getAccommodations"),
                                  arguments |-> JObj([city |-> JStr("Paris")])])])
      [] s = BodyToolsCallRes ->
           JObj([result |-> JObj([content |-> JArr(<<
                JObj([type |-> JStr("text"), text |-> JStr("[1,2,3]")])>>)])])
      [] s = "[1,2,3]" -> JArr(<<JNum(1), JNum(2), JNum(3)>>)
      [] s = BodyToolsList -> JObj([method |-> JStr("tools/list")])
      [] s = BodyToolsListRes ->
           JObj([result |-> JObj([tools |-> JArr(<<
                JObj([name |-> JStr("getAccommodations")]),
                JObj([name |-> JStr("getBookings")])>>)])])
      [] s = BodyLLMReq ->
           JObj([model |-> JStr("gpt-4o"),
                 messages |-> JArr(<<JObj(<<>>), JObj(<<>>)>>),
                 tools |-> JArr(<<JObj(<<>>)>>)])
      [] s = BodyLLMRes ->
           JObj([choices |-> JArr(<<JObj([message |->
                    JObj([content |-> JStr("Paris has many hotels")])])>>),
                 usage |-> JObj([total_tokens |-> JNum(42)])])
      [] s = BodyLLMToolRes ->
           JObj([choices |-> JArr(<<JObj([message |-> JObj([tool_calls |->
                    JArr(<<JObj([function |->
                        JObj([name |-> JStr("getAccommodations")])])>>)])])>>)])
      [] s = BodyGuardrail -> JObj([message |-> JStr("Blocked by guard rails")])
      [] s = BodyToolsMap ->
           JObj([result |-> JObj([tools |-> JObj([getAccommodations |-> JObj(<<>>)])])])
      [] s = BodyLLMContentObj ->
           JObj([choices |-> JArr(<<JObj([message |->
                    JObj([content |-> JObj([text |-> JStr("Paris")])])])>>)])
      [] s = BodyPartsText ->
           JObj([params |-> JObj([message |-> JObj([parts |-> JStr("Find hotels")])])])
      [] s = BodyArtifactsMap ->
           JObj([result |-> JObj([artifacts |-> JObj([summary |-> JStr("done")])])])
      [] OTHER -> JNull

\* server.js tryJSON
tryJSON(s) == JSONparse(s)

\* ------------------------------------------------------------------------
\* Body parsers
\* ------------------------------------------------------------------------
\* the separator ' em-dash ' of the labels, in ASCII
DASH == " - "

\* parseMCP after its tryJSON, for the parsed value p
parseMCPOf(p) ==
        IF ~Truthy(p) THEN [method |-> "", toolName |-> "", toolArgs |-> JObj(<<>>)]
        ELSE [method |-> StrOf(Get(p, "method")),
              toolName |-> StrOf(Get(Get(p, "params"), "name")),
              toolArgs |-> IF Truthy(Get(Get(p, "params"), "arguments"))
                           THEN Get(Get(p, "params"), "arguments") ELSE JObj(<<>>)]

\* server.js parseMCP; {} is the record of empty fields
parseMCP(body) == parseMCPOf(tryJSON(body))

\* parseMCPRes after its first tryJSON, for the parsed value p
parseMCPResOf(p) ==
    LET result == Get(p, "result")
        tools == Get(result, "tools")
        content == Get(result, "content")
        texts == {i \in 1..Len(Elems(content)) :
                     StrOf(Get(Elems(content)[i], "type")) = "text"}
        tc == Elems(content)[SetMin(texts)]
        inner == tryJSON(StrOf(Get(tc, "text")))
    IN  IF ~Truthy(p) \/ ~Truthy(result) THEN [kind |-> "null"]
        ELSE IF Truthy(tools)
             THEN [kind |-> "tools",
                   tools |-> [i \in 1..Len(Elems(tools)) |->
                                 StrOf(Get(Elems(tools)[i], "name"))]]
        ELSE IF Truthy(content) /\ texts # {}
             THEN IF inner.t = "arr"
                  THEN [kind |-> "count", count |-> Len(inner.a)]
                  ELSE [kind |-> "text", text |-> trunc(StrOf(Get(tc, "text")), 80)]
        ELSE [kind |-> "null"]

\* server.js parseMCPRes; kind "null" is the result null
parseMCPRes(body) == parseMCPResOf(tryJSON(body))

\* parseLLMReq after its tryJSON, for the parsed value p
parseLLMReqOf(p) ==
        IF ~Truthy(p)
        THEN [ok |-> FALSE, model |-> "", hasTools |-> FALSE, nTools |-> 0, nMsgs |-> 0]
        ELSE [ok |-> TRUE,
              model |-> StrOf(Get(p, "model")),
              hasTools |-> Truthy(Get(p, "tools")) /\ Len(Elems(Get(p, "tools"))) # 0,
              nTools |-> Len(Elems(Get(p, "tools"))),
              nMsgs |-> Len(Elems(Get(p, "messages")))]

\* server.js parseLLMReq; ok = FALSE is the result {}
parseLLMReq(body) == parseLLMReqOf(tryJSON(body))

\* tc.function ? tc.function.name : '?'
ToolCallName(tc) ==
    IF Truthy(Get(tc, "function")) THEN StrOf(Get(Get(tc, "function"), "name")) ELSE "?"

\* parseLLMRes after its tryJSON, for the parsed value p
parseLLMResOf(p) ==
    LET choices == Get(p, "choices")
        first == IF Len(Elems(choices)) >= 1 THEN Elems(choices)[1] ELSE JUndef
        msg == IF Truthy(Get(first, "message")) THEN Get(first, "message") ELSE JObj(<<>>)
        calls == Elems(Get(msg, "tool_calls"))
        content == StrOf(Get(msg, "content"))
        tokens == Get(Get(p, "usage"), "total_tokens")
    IN  IF ~Truthy(p) \/ ~Truthy(choices) \/ ~Truthy(first)
        THEN [hasToolCalls |-> FALSE, toolCalls |-> <<>>, content |-> "", tokens |-> 0]
        ELSE [hasToolCalls |-> Truthy(Get(msg, "tool_calls")) /\ Len(calls) # 0,
              toolCalls |-> [i \in 1..Len(calls) |-> ToolCallName(calls[i])],
              content |-> IF Len(content) > 120 THEN SubSeq(content, 1, 120) ELSE content,
              tokens |-> IF tokens.t = "num" THEN tokens.n ELSE 0]

\* server.js parseLLMRes; the result {} is the record of falsy fields
parseLLMRes(body) == parseLLMResOf(tryJSON(body))

\* parts.find(part => part.text), then its text ('' when there is none)
PartsText(parts) == StrOf(Get(FindWith(Elems(parts), "text"), "text"))

\* parseUserRequest after its tryJSON, for the parsed value p
parseUserRequestOf(p) ==
    LET parts == Get(Get(Get(p, "params"), "message"), "parts")
    IN  IF ~Truthy(p) THEN ""
        ELSE IF Truthy(parts) /\ PartsText(parts) # "" THEN PartsText(parts)
        ELSE IF IsString(Get(p, "message")) /\ Truthy(Get(p, "message"))
             THEN Get(p, "message").s
        ELSE IF IsString(Get(p, "text")) /\ Truthy(Get(p, "text"))
             THEN Get(p, "text").s
        ELSE ""

\* server.js parseUserRequest
parseUserRequest(body) == parseUserRequestOf(tryJSON(body))

\* the first text of result.artifacts[].parts[], '' when there is none
RECURSIVE ArtifactsText(_)
ArtifactsText(arts) ==
    IF arts = <<>> THEN ""
    ELSE IF PartsText(Get(Head(arts), "parts")) # ""
         THEN PartsText(Get(Head(arts), "parts"))
         ELSE ArtifactsText(Tail(arts))

\* parseAgentResponse after its tryJSON, for the parsed value p
parseAgentResponseOf(p) ==
    LET result == Get(p, "result")
        statusParts == Get(Get(Get(result, "status"), "message"), "parts")
        msgParts == Get(Get(result, "message"), "parts")
    IN  IF ~Truthy(p) THEN ""
        ELSE IF Truthy(result) /\ Truthy(Get(result, "parts"))
                /\ PartsText(Get(result, "parts")) # ""
             THEN PartsText(Get(result, "parts"))
        ELSE IF Truthy(result) /\ Truthy(Get(result, "artifacts"))
                /\ ArtifactsText(Elems(Get(result, "artifacts"))) # ""
             THEN ArtifactsText(Elems(Get(result, "artifacts")))
        ELSE IF Truthy(result) /\ Truthy(statusParts) /\ PartsText(statusParts) # ""
             THEN PartsText(statusParts)
        ELSE IF Truthy(result) /\ Truthy(msgParts) /\ PartsText(msgParts) # ""
             THEN PartsText(msgParts)
        ELSE IF IsString(Get(p, "message")) /\ Truthy(Get(p, "message"))
             THEN Get(p, "message").s
        ELSE IF IsString(Get(p, "text")) /\ Truthy(Get(p, "text"))
             THEN Get(p, "text").s
        ELSE ""

\* server.js parseAgentResponse
parseAgentResponse(body) == parseAgentResponseOf(tryJSON(body))

\* ------------------------------------------------------------------------
\* The TypeErrors of the body parsers: a method that the value does not have,
\* or a property read on null
\* ------------------------------------------------------------------------
IsNullish(v) == v.t \in {"null", "undef"}

\* v.find(x => x.k) or v.map(x => x.k) throws before it returns: v is no
\* array, or an element that is reached is null; find stops at its first hit
FindThrows(v, k) ==
    \/ v.t # "arr"
    \/ \E i \in 1..Len(v.a) :
          /\ IsNullish(v.a[i])
          /\ \A j \in 1..(i - 1) : ~Truthy(Get(v.a[j], k))

MapThrows(v) == v.t # "arr" \/ \E i \in 1..Len(v.a) : IsNullish(v.a[i])

\* parseMCPRes throws (lines 68-73)
parseMCPResThrows(p) ==
    LET result == Get(p, "result")
        tools == Get(result, "tools")
        content == Get(result, "content")
    IN  /\ Truthy(p) /\ Truthy(result)
        /\ IF Truthy(tools) THEN MapThrows(tools)
           ELSE Truthy(content)
                /\ (content.t # "arr"
                    \/ \E i \in 1..Len(content.a) :
                          /\ IsNullish(content.a[i])
                          /\ \A j \in 1..(i - 1) :
                                StrOf(Get(content.a[j], "type")) # "text")

\* parseLLMRes throws (lines 97-101)
parseLLMResThrows(p) ==
    LET choices == Get(p, "choices")
        first == IF Len(Elems(choices)) >= 1 THEN Elems(choices)[1] ELSE JUndef
        msg == IF Truthy(Get(first, "message")) THEN Get(first, "message") ELSE JObj(<<>>)
        calls == Get(msg, "tool_calls")
        content == Get(msg, "content")
    IN  /\ Truthy(p) /\ Truthy(choices) /\ Truthy(first)
        /\ \/ Truthy(calls) /\ MapThrows(calls)
           \/ Truthy(content) /\ content.t \notin {"str", "arr"}

\* parseUserRequest throws (lines 110-112)
parseUserRequestThrows(p) ==
    LET parts == Get(Get(Get(p, "params"), "message"), "parts")
    IN  Truthy(p) /\ Truthy(parts) /\ FindThrows(parts, "text")

\* for (const art of artifacts) for (const part of (art.parts || [])) throws
\* before a text is found: artifacts taken as an array
RECURSIVE ArtifactsThrow(_)
ArtifactsThrow(arts) ==
    /\ arts # <<>>
    /\ \/ IsNullish(Head(arts))
       \/ Truthy(Get(Head(arts), "parts")) /\ FindThrows(Get(Head(arts), "parts"), "text")
       \/ /\ PartsText(Get(Head(arts), "parts")) = ""
          /\ ArtifactsThrow(Tail(arts))

\* parseAgentResponse throws (lines 123-146)
parseAgentResponseThrows(p) ==
    LET result == Get(p, "result")
        parts == Get(result, "parts")
        artifacts == Get(result, "artifacts")
        statusParts == Get(Get(Get(result, "status"), "message"), "parts")
        msgParts == Get(Get(result, "message"), "parts")
    IN  /\ Truthy(p) /\ Truthy(result)
        /\ IF Truthy(parts) /\ FindThrows(parts, "text") THEN TRUE
           ELSE IF Truthy(parts) /\ PartsText(parts) # "" THEN FALSE
           ELSE IF Truthy(artifacts) /\ artifacts.t \notin {"arr", "str"} THEN TRUE
           ELSE IF Truthy(artifacts) /\ ArtifactsThrow(Elems(artifacts)) THEN TRUE
           ELSE IF Truthy(artifacts) /\ ArtifactsText(Elems(artifacts)) # "" THEN FALSE
           ELSE IF Truthy(statusParts) /\ FindThrows(statusParts, "text") THEN TRUE
           ELSE IF Truthy(statusParts) /\ PartsText(statusParts) # "" THEN FALSE
           ELSE Truthy(msgParts) /\ FindThrows(msgParts, "text")

\* a || b || null on body strings
OrNull(a, b) == IF a # "" THEN a ELSE IF b # "" THEN b ELSE null

\* a || b on texts
Or(a, b) == IF a # "" THEN a ELSE b

\* ------------------------------------------------------------------------
\* Noise filter and classification
\* ------------------------------------------------------------------------
\* method.toUpperCase(), for the spellings of the methods of the model
ToUpperCase(text) ==
    CASE text = "options" -> "OPTIONS"
      [] text = "head" -> "HEAD"
      [] text = "connect" -> "CONNECT"
      [] text = "post" -> "POST"
      [] text = "get" -> "GET"
      [] OTHER -> text

\* server.js isNoise
isNoise(evt) ==
    \/ ToUpperCase(evt.httpMethod) \in {"OPTIONS", "HEAD", "CONNECT"}
    \/ evt.status = 499
    \/ (evt.status = 504 /\ Includes(evt.uri, "/mcp"))
    \/ (evt.endpointResponseTimeMs >= 9000 /\ Includes(evt.uri, "/mcp"))
    \/ StartsWith(evt.uri, "/hotels-mcp")

Divider(label) == [type |-> "divider", label |-> label]

\* `${d.s} - ${d.tot}ms`
StatusMs(d) == ToString(d.s) \o DASH \o ToString(d.tot) \o "ms"

\* `${d.tot}ms / ${d.gw}ms gw`
TotGw(d) == ToString(d.tot) \o "ms / " \o ToString(d.gw) \o "ms gw"

\* `${d.m} ${evt.uri}`
MethodUri(evt, d) == d.m \o " " \o evt.uri

\* d.s < 400 ? ok : `Error ${d.s}`
OkOrError(d, ok) == IF d.s < 400 THEN ok ELSE "Error " \o ToString(d.s)

\* the steps fAgent returns, for the texts it has parsed
fAgentSteps(evt, d, userText, agentText) ==
        << Divider("User Request"),
           [type |-> "arrow", from |-> "agent", to |-> "gateway",
            label |-> MethodUri(evt, d),
            message |-> [lane |-> "gateway",
                         text |-> IF userText # "" THEN trunc(userText, 100)
                                  ELSE "User request",
                         rawDetail |-> OrNull(d.reqB, d.edReq)],
            policies |-> <<>>, plan |-> "Keyless"],
           [type |-> "arrow", from |-> "gateway", to |-> "agent",
            label |-> StatusMs(d),
            message |-> [lane |-> "agent",
                         text |-> IF agentText # "" THEN trunc(agentText, 120)
                                  ELSE OkOrError(d, "Agent replied"),
                         rawDetail |-> OrNull(d.eRes, d.resB)],
            badge |-> [type |-> st(d.s), text |-> ToString(d.tot) \o "ms"]] >>

\* server.js fAgent
fAgent(evt, d) ==
    fAgentSteps(evt, d,
                Or(parseUserRequest(d.reqB), parseUserRequest(d.edReq)),
                Or(parseAgentResponse(d.eRes), parseAgentResponse(d.resB)))

\* the steps fCurrency returns, for the texts it has parsed
fCurrencySteps(evt, d, userText, agentText) ==
        << Divider("A2A" \o DASH \o "Currency Conversion"),
           [type |-> "arrow", from |-> "agent", to |-> "gateway",
            label |-> MethodUri(evt, d),
            message |-> [lane |-> "gateway",
                         text |-> IF userText # "" THEN trunc(userText, 100)
                                  ELSE "Currency conversion request",
                         rawDetail |-> OrNull(d.reqB, d.edReq)],
            policies |-> <<>>, plan |-> "Keyless"],
           [type |-> "arrow", from |-> "gateway", to |-> "currency",
            label |-> "A2A message/send",
            message |-> [lane |-> "currency",
                         text |-> IF userText # "" THEN trunc(userText, 100)
                                  ELSE "Convert currencies"]],
           [type |-> "arrow", from |-> "currency", to |-> "gateway",
            label |-> ToString(d.s),
            message |-> [lane |-> "gateway",
                         text |-> IF agentText # "" THEN trunc(agentText, 100)
                                  ELSE OkOrError(d, "Conversion result")]],
           [type |-> "arrow", from |-> "gateway", to |-> "agent",
            label |-> StatusMs(d),
            message |-> [lane |-> "agent",
                         text |-> IF agentText # "" THEN trunc(agentText, 100)
                                  ELSE OkOrError(d, "Conversion result received"),
                         rawDetail |-> OrNull(d.eRes, d.resB)],
            badge |-> [type |-> st(d.s), text |-> TotGw(d)]] >>

\* mutant of fCurrency: only the legs between the caller and the gateway
fCurrency_CallerLegs(evt, d) ==
    LET steps == fCurrencySteps(evt, d,
                     Or(parseUserRequest(d.reqB), parseUserRequest(d.edReq)),
                     Or(parseAgentResponse(d.eRes), parseAgentResponse(d.resB)))
    IN  <<steps[1], steps[2], steps[5]>>

\* server.js fCurrency
fCurrency(evt, d) ==
    fCurrencySteps(evt, d,
                   Or(parseUserRequest(d.reqB), parseUserRequest(d.edReq)),
                   Or(parseAgentResponse(d.eRes), parseAgentResponse(d.resB)))

\* res.toolCalls.join(', ')
RECURSIVE JoinComma(_)
JoinComma(names) ==
    IF names = <<>> THEN ""
    ELSE IF Len(names) = 1 THEN names[1]
    ELSE names[1] \o ", " \o JoinComma(Tail(names))

\* mutant of BlockedAtGateway: every call counts as having reached the model
BlockedAtGateway_Never(d) == FALSE

\* line 300: const blockedAtGateway = d.s >= 400 && !d.resB
BlockedAtGateway(d) == d.s >= 400 /\ d.resB = ""

\* the policies of the request leg of an LLM call
LLMPolicies(d) ==
    << [name |-> "AI Guardrails", passed |-> d.s # 400],
       [name |-> "Token Rate Limit", passed |-> d.s # 429] >>

\* the steps fLLM returns, for the parsed request req and response res
fLLMSteps(evt, d, req, res) ==
    LET mdl == IF req.model # "" THEN req.model ELSE "LLM"
        blockedAtGateway == BlockedAtGateway(d)
        nMsgs == IF req.ok THEN ToString(req.nMsgs) ELSE "undefined"
        nTools == IF req.ok THEN ToString(req.nTools) ELSE "undefined"
        reqText == IF req.hasTools
                   THEN nMsgs \o " messages + " \o nTools \o " tool definitions"
                   ELSE nMsgs \o " messages"
        tc == res.hasToolCalls
        tokens == IF res.tokens # 0 THEN ToString(res.tokens) \o " tokens" ELSE ""
        resText == IF d.s >= 400 THEN "Error " \o ToString(d.s)
                   ELSE IF tc THEN "Call " \o JoinComma(res.toolCalls)
                   ELSE IF res.content # ""
                        THEN "Text response"
                             \o (IF res.tokens # 0 THEN DASH \o tokens ELSE "")
                   ELSE "Response received"
        reqLeg == [type |-> "arrow", from |-> "agent", to |-> "gateway",
                   label |-> MethodUri(evt, d),
                   message |-> [lane |-> "gateway", text |-> "Forwarding to LLM",
                                rawDetail |-> OrNull(d.reqB, "")],
                   policies |-> LLMPolicies(d), plan |-> "Keyless"]
    IN  IF blockedAtGateway
        THEN << Divider("LLM" \o DASH \o "Blocked by Policy"),
                reqLeg,
                [type |-> "arrow", from |-> "gateway", to |-> "agent",
                 label |-> StatusMs(d),
                 message |-> [lane |-> "agent", text |-> "Error " \o ToString(d.s),
                              rawDetail |-> OrNull(d.eRes, "")],
                 badge |-> [type |-> st(d.s), text |-> TotGw(d)]] >>
        ELSE << Divider(IF tc THEN "LLM" \o DASH \o "Tool Call Decision"
                        ELSE "LLM" \o DASH \o "Response"),
                reqLeg,
                [type |-> "arrow", from |-> "gateway", to |-> "llm",
                 label |-> mdl,
                 message |-> [lane |-> "llm", text |-> reqText]],
                [type |-> "arrow", from |-> "llm", to |-> "gateway",
                 label |-> ToString(d.s),
                 message |-> [lane |-> "gateway", text |-> resText]],
                [type |-> "arrow", from |-> "gateway", to |-> "agent",
                 label |-> StatusMs(d),
                 message |-> [lane |-> "agent", text |-> resText,
                              rawDetail |-> OrNull(d.resB, d.eRes)],
                 badge |-> [type |-> st(d.s),
                            text |-> ToString(d.tot) \o "ms"
                                     \o (IF res.tokens # 0 THEN " / " \o tokens ELSE "")
                                     \o " / " \o ToString(d.gw) \o "ms gw"]] >>

\* server.js fLLM
fLLM(evt, d) == fLLMSteps(evt, d, parseLLMReq(d.reqB), parseLLMRes(Or(d.resB, d.eRes)))

\* the steps fMCP returns, for the parsed request mcp and response mcpRes
fMCPSteps(evt, d, plan, mcp, mcpRes) ==
    LET isList == mcp.method = "tools/list"
        isCall == mcp.method = "tools/call"
        toolCall == IF isCall THEN [name |-> mcp.toolName, args |-> mcp.toolArgs]
                    ELSE null
        resText == IF d.s >= 400 THEN "Error " \o ToString(d.s)
                   ELSE IF mcpRes.kind = "tools"
                        THEN ToString(Len(mcpRes.tools)) \o " tools discovered"
                   ELSE IF mcpRes.kind = "count"
                        THEN ToString(mcpRes.count) \o " results"
                   ELSE IF mcpRes.kind = "text" /\ mcpRes.text # "" THEN mcpRes.text
                   ELSE "OK"
        toolList == IF d.s < 400 /\ mcpRes.kind = "tools" THEN mcpRes.tools ELSE null
        passed == d.s < 400
        policies == IF plan = "OAuth2"
                    THEN << [name |-> "OAuth2", passed |-> passed],
                            [name |-> "MCP ACL", passed |-> passed] >>
                    ELSE <<>>
        dividerLabel ==
            IF isList THEN "Tool Discovery"
            ELSE IF isCall
                 THEN "Tool Call" \o DASH \o Or(mcp.toolName, "unknown")
            ELSE "MCP" \o DASH \o Or(mcp.method, "?")
    IN  IF isList
        THEN << Divider(dividerLabel),
                [type |-> "arrow", from |-> "agent", to |-> "gateway",
                 label |-> MethodUri(evt, d),
                 message |-> [lane |-> "gateway", text |-> "MCP tools/list request",
                              rawDetail |-> OrNull(d.reqB, "")],
                 policies |-> policies, plan |-> plan],
                [type |-> "arrow", from |-> "gateway", to |-> "agent",
                 label |-> StatusMs(d),
                 message |-> [lane |-> "agent", text |-> resText,
                              toolList |-> toolList,
                              rawDetail |-> OrNull(d.eRes, d.resB)],
                 badge |-> [type |-> st(d.s), text |-> TotGw(d)]] >>
        ELSE << Divider(dividerLabel),
                [type |-> "arrow", from |-> "agent", to |-> "gateway",
                 label |-> MethodUri(evt, d),
                 message |-> [lane |-> "gateway",
                              text |-> "MCP " \o Or(mcp.method, "request") \o DASH
                                       \o Or(mcp.toolName, "?"),
                              toolCall |-> toolCall,
                              rawDetail |-> OrNull(d.reqB, "")],
                 policies |-> policies, plan |-> plan],
                [type |-> "arrow", from |-> "gateway", to |-> "api",
                 label |-> "GET /accommodations",
                 message |-> [lane |-> "api",
                              text |-> Or(mcp.toolName, "Backend call")]],
                [type |-> "arrow", from |-> "api", to |-> "gateway",
                 label |-> ToString(d.s),
                 message |-> [lane |-> "gateway", text |-> resText]],
                [type |-> "arrow", from |-> "gateway", to |-> "agent",
                 label |-> StatusMs(d),
                 message |-> [lane |-> "agent", text |-> resText,
                              rawDetail |-> OrNull(d.eRes, d.resB)],
                 badge |-> [type |-> st(d.s), text |-> TotGw(d)]] >>

\* server.js fMCP
fMCP(evt, d, plan) ==
    fMCPSteps(evt, d, plan, parseMCP(d.reqB), parseMCPRes(Or(d.eRes, d.resB)))

\* mutant of fOther: a record of an unknown API gets no steps
fOther_None(evt, d) == <<>>

\* server.js fOther
fOther(evt, d) ==
    << Divider(Or(evt.apiName, "?") \o DASH \o MethodUri(evt, d)),
       [type |-> "arrow", from |-> "agent", to |-> "gateway",
        label |-> MethodUri(evt, d),
        message |-> [lane |-> "gateway", text |-> ToString(d.s),
                     rawDetail |-> OrNull(d.eRes, "")],
        badge |-> [type |-> st(d.s), text |-> ToString(d.tot) \o "ms"]] >>

\* the record d that classify hands to the classifiers
ClassifyData(evt) ==
    [m |-> evt.httpMethod, s |-> evt.status,
     gw |-> evt.gatewayLatencyMs, tot |-> evt.gatewayResponseTimeMs,
     reqB |-> evt.entrypointRequest, edReq |-> evt.endpointRequest,
     resB |-> evt.endpointResponse, eRes |-> evt.entrypointResponse]

\* mutant of Classifier: the '/hotels' rule comes before the '/hotels' with
\* '/mcp' rule
Classifier_HotelsFirst(evt) ==
    IF evt.jvm THEN "null"
    ELSE IF evt.uri = "" \/ evt.requestId = "" THEN "null"
    ELSE IF isNoise(evt) THEN "null"
    ELSE IF StartsWith(evt.uri, "/bookings-agent") THEN "fAgent"
    ELSE IF StartsWith(evt.uri, "/currency-agent") THEN "fCurrency"
    ELSE IF StartsWith(evt.uri, "/llm-proxy") \/ Includes(evt.apiName, "LLM") THEN "fLLM"
    ELSE IF StartsWith(evt.uri, "/mcp-proxy") THEN "fMCP OAuth2"
    ELSE IF StartsWith(evt.uri, "/hotels") THEN "null"
    ELSE IF StartsWith(evt.uri, "/hotels") /\ Includes(evt.uri, "/mcp")
         THEN "fMCP Keyless"
    ELSE "fOther"

\* mutant of Classifier: isNoise is asked only before the fallback
Classifier_NoiseLast(evt) ==
    IF evt.jvm THEN "null"
    ELSE IF evt.uri = "" \/ evt.requestId = "" THEN "null"
    ELSE IF StartsWith(evt.uri, "/bookings-agent") THEN "fAgent"
    ELSE IF StartsWith(evt.uri, "/currency-agent") THEN "fCurrency"
    ELSE IF StartsWith(evt.uri, "/llm-proxy") \/ Includes(evt.apiName, "LLM") THEN "fLLM"
    ELSE IF StartsWith(evt.uri, "/mcp-proxy") THEN "fMCP OAuth2"
    ELSE IF StartsWith(evt.uri, "/hotels") /\ Includes(evt.uri, "/mcp")
         THEN "fMCP Keyless"
    ELSE IF StartsWith(evt.uri, "/hotels") THEN "null"
    ELSE IF isNoise(evt) THEN "null"
    ELSE "fOther"

\* which classifier classify picks: "null" when it returns null
Classifier(evt) ==
    IF evt.jvm THEN "null"
    ELSE IF evt.uri = "" \/ evt.requestId = "" THEN "null"
    ELSE IF isNoise(evt) THEN "null"
    ELSE IF StartsWith(evt.uri, "/bookings-agent") THEN "fAgent"
    ELSE IF StartsWith(evt.uri, "/currency-agent") THEN "fCurrency"
    ELSE IF StartsWith(evt.uri, "/llm-proxy") \/ Includes(evt.apiName, "LLM") THEN "fLLM"
    ELSE IF StartsWith(evt.uri, "/mcp-proxy") THEN "fMCP OAuth2"
    ELSE IF StartsWith(evt.uri, "/hotels") /\ Includes(evt.uri, "/mcp")
         THEN "fMCP Keyless"
    ELSE IF StartsWith(evt.uri, "/hotels") THEN "null"
    ELSE "fOther"

\* server.js classify; the result null is the empty list
classify(evt) ==
    LET d == ClassifyData(evt)
        c == Classifier(evt)
    IN  CASE c = "fAgent" -> fAgent(evt, d)
          [] c = "fCurrency" -> fCurrency(evt, d)
          [] c = "fLLM" -> fLLM(evt, d)
          [] c = "fMCP OAuth2" -> fMCP(evt, d, "OAuth2")
          [] c = "fMCP Keyless" -> fMCP(evt, d, "Keyless")
          [] c = "fOther" -> fOther(evt, d)
          [] OTHER -> <<>>

\* parse(a) || parse(b) throws: b is parsed only when a gave ''
EitherThrows(aThrows, aText, bThrows) == aThrows \/ (aText = "" /\ bThrows)

\* the classifier that classify picks throws a TypeError in a body parser
ClassifierThrows(c, d) ==
    CASE c \in {"fAgent", "fCurrency"} ->
           \/ EitherThrows(parseUserRequestThrows(tryJSON(d.reqB)),
                           parseUserRequest(d.reqB),
                           parseUserRequestThrows(tryJSON(d.edReq)))
           \/ EitherThrows(parseAgentResponseThrows(tryJSON(d.eRes)),
                           parseAgentResponse(d.eRes),
                           parseAgentResponseThrows(tryJSON(d.resB)))
      [] c = "fLLM" ->
           /\ ~BlockedAtGateway(d)
           /\ parseLLMResThrows(tryJSON(Or(d.resB, d.eRes)))
      [] c \in {"fMCP OAuth2", "fMCP Keyless"} ->
           parseMCPResThrows(tryJSON(Or(d.eRes, d.resB)))
      [] OTHER -> FALSE

\* classify(evt) throws (line 686)
ClassifyThrows(evt) == ClassifierThrows(Classifier(evt), ClassifyData(evt))

\* ------------------------------------------------------------------------
\* State
\* ------------------------------------------------------------------------
VARIABLES
    seen,            \* the Set seen, in insertion order
    a2aPayloads,     \* the Map a2aPayloads, in insertion order of its keys
    pendingEvents,   \* the buffered entries; age = ms since the push
    bufferTimeout,   \* handle of the 60 s timer, 0 for null
    flushTimer,      \* handle of the 500 ms timer, 0 for null
    timers,          \* the pending tasks of the timer queue
    nextTimer,       \* the handle the next setTimeout returns
    sent,            \* every message handed to broadcast, in order
    flushLog,        \* every run of flushBuffer: what fired it, what it took
    seenEvictions,   \* how often the half-eviction of seen has run
    idsIssued,       \* how many distinct request ids the gateway has used
    lastOp,          \* the step taken last, and the kind of record it was given
    sockets,         \* per reporter connection: its buffer, how many bytes it
                     \* has delivered, and the records it handed to processEvent
    wsClients        \* per WebSocket: whether the Set wsClients holds it, its
                     \* readyState, how many messages had been sent when it
                     \* connected, and the messages it was sent (by number)

\* the state of the server
server == <<seen, a2aPayloads, pendingEvents, bufferTimeout, flushTimer, timers,
            nextTimer, sent, flushLog, seenEvictions>>

vars == <<server, idsIssued, lastOp, sockets, wsClients>>

\* ------------------------------------------------------------------------
\* The timer queue
\* ------------------------------------------------------------------------
\* setTimeout(flushBuffer, delay): the queue with the new task
setTimeout(queue, id, delay) == queue \cup {[id |-> id, delay |-> delay, elapsed |-> 0]}

\* clearTimeout(handle): a handle that already fired, or null, removes nothing
clearTimeout(queue, handle) == {t \in queue : t.id # handle}

Remaining(t) == t.delay - t.elapsed

\* ------------------------------------------------------------------------
\* seen and a2aPayloads
\* ------------------------------------------------------------------------
\* seen.has(id)
SeenHas(set, id) == \E i \in 1..Len(set) : set[i] = id

\* mutant of SeenAdd: the half-eviction removes the ids added last
SeenAdd_EvictNewest(set, id) ==
    LET added == Append(set, id)
    IN  IF Len(added) > SEEN_MAX
        THEN SubSeq(added, 1, Len(added) - SEEN_EVICT)
        ELSE added

\* mutant of SeenAdd: the half-eviction runs as soon as the bound is reached
SeenAdd_EvictAtBound(set, id) ==
    LET added == Append(set, id)
    IN  IF Len(added) >= SEEN_MAX
        THEN SubSeq(added, SEEN_EVICT + 1, Len(added))
        ELSE added

\* seen.add(id), then the half-eviction of lines 681-683
SeenAdd(set, id) ==
    LET added == Append(set, id)
    IN  IF Len(added) > SEEN_MAX
        THEN SubSeq(added, SEEN_EVICT + 1, Len(added))
        ELSE added

\* the index of key rid in the Map, 0 when it has none
A2AIndex(map, rid) ==
    IF \E i \in 1..Len(map) : map[i].rid = rid
    THEN SetMin({i \in 1..Len(map) : map[i].rid = rid})
    ELSE 0

EmptyA2A(rid) ==
    [rid |-> rid, request |-> "", response |-> "", userText |-> "", agentText |-> ""]

\* a2aPayloads.get(rid) || {}
A2AGet(map, rid) ==
    IF A2AIndex(map, rid) = 0 THEN EmptyA2A(rid) ELSE map[A2AIndex(map, rid)]

\* a2aPayloads.set(rid, entry): an existing key keeps its place
A2ASet(map, rid, entry) ==
    IF A2AIndex(map, rid) = 0 THEN Append(map, entry)
    ELSE [i \in 1..Len(map) |-> IF i = A2AIndex(map, rid) THEN entry ELSE map[i]]

\* a2aPayloads.delete(rid)
A2ADelete(map, rid) == SelectSeq(map, LAMBDA e : e.rid # rid)

\* mutant of A2AEvict: the 250 last keys are dropped
A2AEvict_Newest(map) ==
    IF Len(map) > A2A_MAX THEN SubSeq(map, 1, Len(map) - A2A_EVICT) ELSE map

\* lines 668-671: drop the 250 first keys once the Map holds more than 500
A2AEvict(map) ==
    IF Len(map) > A2A_MAX THEN SubSeq(map, A2A_EVICT + 1, Len(map)) ELSE map

\* mutant of Enrich: what the correlation entry has replaces what the agent
\* entry holds
Enrich_Overwrite(e, a2a) ==
    [e EXCEPT !.userText = IF a2a.userText # "" THEN a2a.userText ELSE @,
              !.agentText = IF a2a.agentText # "" THEN a2a.agentText ELSE @,
              !.agentRawRequest = IF a2a.request # "" THEN a2a.request ELSE @,
              !.agentRawResponse = IF a2a.response # "" THEN a2a.response ELSE @]

\* lines 661-664 and 715-718 and 547-550: fill the empty fields of a buffered
\* agent entry from a correlation entry
Enrich(e, a2a) ==
    [e EXCEPT !.userText = IF @ = "" /\ a2a.userText # "" THEN a2a.userText ELSE @,
              !.agentText = IF @ = "" /\ a2a.agentText # "" THEN a2a.agentText ELSE @,
              !.agentRawRequest = IF @ = "" /\ a2a.request # "" THEN a2a.request ELSE @,
              !.agentRawResponse = IF @ = "" /\ a2a.response # "" THEN a2a.response ELSE @]

\* ------------------------------------------------------------------------
\* flushBuffer
\* ------------------------------------------------------------------------
\* innerEvents.sort((a, b) => a.timestamp - b.timestamp): a stable sort
RECURSIVE InsertByTimestamp(_, _)
InsertByTimestamp(sorted, e) ==
    IF sorted = <<>> THEN <<e>>
    ELSE IF sorted[Len(sorted)].timestamp <= e.timestamp THEN Append(sorted, e)
    ELSE Append(InsertByTimestamp(SubSeq(sorted, 1, Len(sorted) - 1), e),
                sorted[Len(sorted)])

RECURSIVE SortByTimestamp(_)
SortByTimestamp(events) ==
    IF events = <<>> THEN <<>>
    ELSE InsertByTimestamp(SortByTimestamp(SubSeq(events, 1, Len(events) - 1)),
                           events[Len(events)])

\* allSteps.push(...evt.steps) for each inner event
RECURSIVE InnerSteps(_)
InnerSteps(events) ==
    IF events = <<>> THEN <<>> ELSE Head(events).steps \o InnerSteps(Tail(events))

IsAgentEntry(e) == e.isAgent

\* events.find(e => e.isAgent): its index, 0 when there is none
AgentIndex(events) ==
    IF \E i \in 1..Len(events) : IsAgentEntry(events[i])
    THEN SetMin({i \in 1..Len(events) : IsAgentEntry(events[i])})
    ELSE 0

\* lines 543-552: the agent entry after the last-chance enrichment
FlushAgentEvt(events, map) ==
    LET agentEvt == events[AgentIndex(events)]
    IN  IF agentEvt.requestId # "" /\ A2AIndex(map, agentEvt.requestId) # 0
        THEN Enrich(agentEvt, A2AGet(map, agentEvt.requestId))
        ELSE agentEvt

\* lines 544-552: the Map after the enrichment consumed its entry
FlushA2A(events, map) ==
    IF AgentIndex(events) # 0 /\ events[AgentIndex(events)].requestId # ""
    THEN A2ADelete(map, events[AgentIndex(events)].requestId)
    ELSE map

\* mutant of RequestSteps: no generic text when the agent entry has none
RequestSteps_NoGeneric(agentEvt) ==
    << Divider("User Request"),
       [type |-> "arrow", from |-> "client", to |-> "gateway",
        label |-> "POST /bookings-agent/",
        message |-> [lane |-> "gateway",
                     text |-> trunc(agentEvt.userText, 120),
                     rawDetail |-> OrNull(agentEvt.agentRawRequest, "")],
        policies |-> <<>>, plan |-> "Keyless"],
       [type |-> "arrow", from |-> "gateway", to |-> "agent",
        label |-> "Forwarded",
        message |-> [lane |-> "agent", text |-> "Processing request"]] >>

\* lines 556-574
RequestSteps(agentEvt) ==
    << Divider("User Request"),
       [type |-> "arrow", from |-> "client", to |-> "gateway",
        label |-> "POST /bookings-agent/",
        message |-> [lane |-> "gateway",
                     text |-> trunc(Or(agentEvt.userText, "User request to agent"), 120),
                     rawDetail |-> OrNull(agentEvt.agentRawRequest, "")],
        policies |-> <<>>, plan |-> "Keyless"],
       [type |-> "arrow", from |-> "gateway", to |-> "agent",
        label |-> "Forwarded",
        message |-> [lane |-> "agent", text |-> "Processing request"]] >>

\* lines 581-602
ResponseSteps(agentEvt) ==
    LET s == IF agentEvt.agentStatus # 0 THEN agentEvt.agentStatus ELSE 200
        tot == agentEvt.agentTotalMs
        rawRes == OrNull(agentEvt.agentRawResponse, "")
    IN  << Divider("Agent Response"),
           [type |-> "arrow", from |-> "agent", to |-> "gateway",
            label |-> "A2A response",
            message |-> [lane |-> "gateway", text |-> "Agent response ready",
                         rawDetail |-> rawRes]],
           [type |-> "arrow", from |-> "gateway", to |-> "client",
            label |-> ToString(s) \o DASH \o ToString(tot) \o "ms",
            message |-> [lane |-> "client", text |-> "Response delivered",
                         rawDetail |-> rawRes],
            badge |-> [type |-> st(s), text |-> ToString(tot) \o "ms total"]] >>

\* mutant of InnerEvents: the agent entries are not filtered out
InnerEvents_All(events) == SortByTimestamp(events)

\* mutant of InnerEvents: the inner events stay in arrival order
InnerEvents_Unsorted(events) == SelectSeq(events, LAMBDA e : ~IsAgentEntry(e))

\* lines 538-539: innerEvents
InnerEvents(events) == SortByTimestamp(SelectSeq(events, LAMBDA e : ~IsAgentEntry(e)))

\* mutant of AllSteps: the response block is pushed before the inner steps
AllSteps_ResponseFirst(events, map) ==
    IF AgentIndex(events) # 0
    THEN RequestSteps(FlushAgentEvt(events, map))
         \o ResponseSteps(FlushAgentEvt(events, map))
         \o InnerSteps(InnerEvents(events))
    ELSE InnerSteps(InnerEvents(events))

\* mutant of AllSteps: without an agent entry a divider of its own comes first
AllSteps_LeadingDivider(events, map) ==
    IF AgentIndex(events) # 0
    THEN RequestSteps(FlushAgentEvt(events, map))
         \o InnerSteps(InnerEvents(events))
         \o ResponseSteps(FlushAgentEvt(events, map))
    ELSE <<Divider("Gateway Activity")>> \o InnerSteps(InnerEvents(events))

\* lines 541-602: allSteps
AllSteps(events, map) ==
    IF AgentIndex(events) # 0
    THEN RequestSteps(FlushAgentEvt(events, map))
         \o InnerSteps(InnerEvents(events))
         \o ResponseSteps(FlushAgentEvt(events, map))
    ELSE InnerSteps(InnerEvents(events))

\* mutant of LiveSteps: the last step is left out
LiveSteps_Truncated(events, map) ==
    [type |-> "live-steps",
     apiName |-> IF AgentIndex(events) # 0 THEN "Complete Flow"
                 ELSE Or(events[1].apiName, "?"),
     timestamp |-> IF AgentIndex(events) # 0
                   THEN events[AgentIndex(events)].timestamp
                   ELSE events[Len(events)].timestamp,
     steps |-> SubSeq(AllSteps(events, map), 1, Len(AllSteps(events, map)) - 1)]

\* lines 604-613: the message; a record without timestamp would get Date.now()
LiveSteps(events, map) ==
    [type |-> "live-steps",
     apiName |-> IF AgentIndex(events) # 0 THEN "Complete Flow"
                 ELSE Or(events[1].apiName, "?"),
     timestamp |-> IF AgentIndex(events) # 0
                   THEN events[AgentIndex(events)].timestamp
                   ELSE events[Len(events)].timestamp,
     steps |-> AllSteps(events, map)]

\* mutant of FlushClearsSafety: the 60 s timer is left alone
FlushClearsSafety_Skip(queue) ==
    /\ timers' = queue
    /\ bufferTimeout' = bufferTimeout

\* line 528
FlushClearsSafety(queue) ==
    /\ timers' = clearTimeout(queue, bufferTimeout)
    /\ bufferTimeout' = 0

\* mutant of FlushClearsGrace: the 500 ms timer is left alone
FlushClearsGrace_Skip(queue) == queue

\* line 529: the queue once the 500 ms timer is cleared
FlushClearsGrace(queue) == clearTimeout(queue, flushTimer)

\* mutant of FlushTaken: only the records with the request id of the first one
FlushTaken_FirstId(buffer) ==
    SelectSeq(buffer, LAMBDA e : e.requestId = buffer[1].requestId)

\* line 531: const events = pendingEvents
FlushTaken(buffer) == buffer

\* server.js flushBuffer, as the callback of the task t that has just left the queue
flushBuffer(t) ==
    LET events == FlushTaken(pendingEvents)
    IN  /\ FlushClearsSafety(FlushClearsGrace(timers \ {t}))
        /\ flushTimer' = 0
        /\ pendingEvents' = <<>>
        /\ flushLog' = Append(flushLog,
                              [timer |-> t, bufferTimeout |-> bufferTimeout,
                               flushTimer |-> flushTimer, events |-> events,
                               published |-> IF events = <<>> THEN 0
                                             ELSE Len(sent) + 1])
        /\ IF events = <<>>
           THEN UNCHANGED <<a2aPayloads, sent>>
           ELSE /\ a2aPayloads' = FlushA2A(events, a2aPayloads)
                /\ sent' = Append(sent, LiveSteps(events, a2aPayloads))
        /\ UNCHANGED <<seen, nextTimer, seenEvictions>>

\* ------------------------------------------------------------------------
\* processEvent
\* ------------------------------------------------------------------------
IsA2A(evt) == evt.connectorId = "agent-to-agent" /\ evt.payload # ""

\* mutant of A2AEntry: every half starts a new entry
A2AEntry_Fresh(map, evt) ==
    LET entry == EmptyA2A(evt.requestId)
    IN  IF evt.operation = "PUBLISH"
        THEN [entry EXCEPT !.request = evt.payload,
                           !.userText = parseUserRequest(evt.payload)]
        ELSE IF evt.operation = "SUBSCRIBE"
        THEN [entry EXCEPT !.response = evt.payload,
                           !.agentText = parseAgentResponse(evt.payload)]
        ELSE entry

\* lines 644-654: the correlation entry after this half
A2AEntry(map, evt) ==
    LET entry == A2AGet(map, evt.requestId)
    IN  IF evt.operation = "PUBLISH"
        THEN [entry EXCEPT !.request = evt.payload,
                           !.userText = parseUserRequest(evt.payload)]
        ELSE IF evt.operation = "SUBSCRIBE"
        THEN [entry EXCEPT !.response = evt.payload,
                           !.agentText = parseAgentResponse(evt.payload)]
        ELSE entry

\* lines 659-665: the first buffered agent entry of this requestId is enriched
EnrichPending(events, rid, entry) ==
    LET hits == {i \in 1..Len(events) :
                    IsAgentEntry(events[i]) /\ events[i].requestId = rid}
    IN  IF hits = {} THEN events
        ELSE [i \in 1..Len(events) |->
                 IF i = SetMin(hits) THEN Enrich(events[i], entry) ELSE events[i]]

\* mutant of ProcessA2A: the half goes through the dedup block as well
ProcessA2A_Deduped(evt) ==
    IF evt.requestId = "" THEN UNCHANGED server
    ELSE /\ a2aPayloads' =
              A2AEvict(A2ASet(a2aPayloads, evt.requestId, A2AEntry(a2aPayloads, evt)))
         /\ pendingEvents' =
              EnrichPending(pendingEvents, evt.requestId, A2AEntry(a2aPayloads, evt))
         /\ seen' = SeenAdd(seen, evt.requestId)
         /\ UNCHANGED <<bufferTimeout, flushTimer, timers, nextTimer, sent,
                        flushLog, seenEvictions>>

\* lines 638-673
ProcessA2A(evt) ==
    IF evt.requestId = "" THEN UNCHANGED server
    ELSE /\ a2aPayloads' =
              A2AEvict(A2ASet(a2aPayloads, evt.requestId, A2AEntry(a2aPayloads, evt)))
         /\ pendingEvents' =
              EnrichPending(pendingEvents, evt.requestId, A2AEntry(a2aPayloads, evt))
         /\ UNCHANGED <<seen, bufferTimeout, flushTimer, timers, nextTimer, sent,
                        flushLog, seenEvictions>>

\* line 689
IsAgentUri(uri) == StartsWith(uri, "/bookings-agent")

\* lines 692-718: the entry that is pushed
BufferEntry(evt, steps, map) ==
    LET base == [uri |-> evt.uri, apiName |-> evt.apiName,
                 timestamp |-> evt.timestamp, steps |-> steps,
                 isAgent |-> IsAgentUri(evt.uri), requestId |-> evt.requestId,
                 age |-> 0]
        reqB == Or(evt.entrypointRequest, evt.endpointRequest)
        eRes == Or(evt.entrypointResponse, evt.endpointResponse)
        agent == [uri |-> evt.uri, apiName |-> evt.apiName,
                  timestamp |-> evt.timestamp, steps |-> steps,
                  isAgent |-> TRUE, requestId |-> evt.requestId,
                  age |-> 0,
                  userText |-> parseUserRequest(reqB),
                  agentText |-> parseAgentResponse(eRes),
                  agentRawResponse |-> eRes,
                  agentRawRequest |-> reqB,
                  agentStatus |-> evt.status,
                  agentTotalMs |-> evt.gatewayResponseTimeMs]
    IN  IF IsAgentUri(evt.uri) THEN Enrich(agent, A2AGet(map, evt.requestId)) ELSE base

\* lines 678-684
Dedup(evt) ==
    IF evt.requestId = "" THEN UNCHANGED <<seen, seenEvictions>>
    ELSE /\ seen' = SeenAdd(seen, evt.requestId)
         /\ seenEvictions' = seenEvictions + (IF Len(seen') <= Len(seen) THEN 1 ELSE 0)

\* mutant of ArmSafety: every push arms a 60 s timer
ArmSafety_Always == TRUE

\* mutant of ArmSafety: no push arms the 60 s timer
ArmSafety_Never == FALSE

\* line 726: if (!bufferTimeout)
ArmSafety == bufferTimeout = 0

\* mutant of CancelGrace: the pending 500 ms timer is not cleared
CancelGrace_Skip(queue) == queue

\* line 737: if (flushTimer) clearTimeout(flushTimer)
CancelGrace(queue) == clearTimeout(queue, flushTimer)

\* mutant of ArmsGrace: every push arms the 500 ms timer
ArmsGrace_Always(isAgent) == TRUE

\* line 735: if (isAgent)
ArmsGrace(isAgent) == isAgent

\* mutant of TxProgress: the count is taken before the push
TxProgress_BeforePush(length) == [type |-> "tx-progress", buffered |-> length - 1]

\* line 732: { type: 'tx-progress', buffered: pendingEvents.length }
TxProgress(length) == [type |-> "tx-progress", buffered |-> length]

\* lines 723-739: push, safety timer, progress notice, grace timer
BufferPush(evt, steps) ==
    LET isAgent == IsAgentUri(evt.uri)
        armSafety == ArmSafety
        safetyId == nextTimer
        graceId == IF armSafety THEN nextTimer + 1 ELSE nextTimer
        q1 == IF armSafety THEN setTimeout(timers, safetyId, MAX_WAIT_MS) ELSE timers
        q2 == IF ArmsGrace(isAgent)
              THEN setTimeout(CancelGrace(q1), graceId, FLUSH_DELAY_MS)
              ELSE q1
    IN  /\ pendingEvents' = Append(pendingEvents, BufferEntry(evt, steps, a2aPayloads))
        /\ bufferTimeout' = IF armSafety THEN safetyId ELSE bufferTimeout
        /\ flushTimer' = IF ArmsGrace(isAgent) THEN graceId ELSE flushTimer
        /\ timers' = q2
        /\ nextTimer' = nextTimer + (IF armSafety THEN 1 ELSE 0)
                                  + (IF ArmsGrace(isAgent) THEN 1 ELSE 0)
        /\ sent' = Append(sent, TxProgress(Len(pendingEvents) + 1))

\* mutant of AlreadySeen: the test of line 679 is missing
AlreadySeen_Never(evt) == FALSE

\* lines 678-679: if (evt.requestId) { if (seen.has(evt.requestId)) return;
AlreadySeen(evt) == evt.requestId # "" /\ SeenHas(seen, evt.requestId)

\* lines 687-739, for the steps that classify returned
Classified(evt, steps) ==
    IF steps = <<>>
    THEN UNCHANGED <<pendingEvents, bufferTimeout, flushTimer, timers, nextTimer, sent>>
    ELSE BufferPush(evt, steps)

\* lines 675-740; an exception of classify leaves processEvent after the
\* dedup block and is caught by the data handler (line 627)
ProcessHttp(evt) ==
    IF evt.uri = "" /\ ~evt.jvm THEN UNCHANGED server
    ELSE IF AlreadySeen(evt) THEN UNCHANGED server
    ELSE /\ Dedup(evt)
         /\ IF ClassifyThrows(evt)
            THEN UNCHANGED <<pendingEvents, bufferTimeout, flushTimer, timers,
                             nextTimer, sent>>
            ELSE Classified(evt, classify(evt))
         /\ UNCHANGED <<a2aPayloads, flushLog>>

\* server.js processEvent
processEvent(evt) == IF IsA2A(evt) THEN ProcessA2A(evt) ELSE ProcessHttp(evt)

\* ------------------------------------------------------------------------
\* The records the gateway reporter sends
\* ------------------------------------------------------------------------
NumIds == 3
DedupIds == 5001
ChunkLines == 500
FlowIds == 3
A2AIds == 2
BulkIds == 1
A2ABulk == 501
LineIds == 1
BodyIds == 2

Timestamps == {1, 2}

\* a reporter record of an HTTP call; absent fields are '' / 0
HttpEvent(rid, uri, method, status, ts, api, reqB, eRes, resB) ==
    [connectorId |-> "", operation |-> "", payload |-> "",
     requestId |-> rid, uri |-> uri, httpMethod |-> method, status |-> status,
     timestamp |-> ts, apiName |-> api,
     gatewayLatencyMs |-> 5, gatewayResponseTimeMs |-> 120,
     endpointResponseTimeMs |-> 100,
     entrypointRequest |-> reqB, endpointRequest |-> "",
     endpointResponse |-> resB, entrypointResponse |-> eRes,
     jvm |-> FALSE]

\* a reporter record of one half of an agent-to-agent exchange
A2AEvent(rid, operation, payload) ==
    [connectorId |-> "agent-to-agent", operation |-> operation, payload |-> payload,
     requestId |-> rid, uri |-> "", httpMethod |-> "", status |-> 0,
     timestamp |-> 0, apiName |-> "",
     gatewayLatencyMs |-> 0, gatewayResponseTimeMs |-> 0,
     endpointResponseTimeMs |-> 0,
     entrypointRequest |-> "", endpointRequest |-> "",
     endpointResponse |-> "", entrypointResponse |-> "",
     jvm |-> FALSE]

\* the outermost user-facing call
AgentEvent(rid) ==
    HttpEvent(rid, "/bookings-agent/", "POST", 200, 3, "Bookings Agent",
              "", BodyAgentMsg, "")

\* an MCP tools/call through the OAuth2 proxy
ToolCallEvent(rid, ts) ==
    HttpEvent(rid, "/mcp-proxy/mcp", "POST", 200, ts, "Hotels MCP",
              BodyToolsCall, BodyToolsCallRes, BodyToolsCallRes)

\* a chat completion through the LLM proxy
LLMEvent(rid, ts) ==
    HttpEvent(rid, "/llm-proxy/chat/completions", "POST", 200, ts, "LLM Proxy",
              BodyLLMReq, BodyLLMRes, BodyLLMRes)

\* the outermost call, logged without any body
BareAgentEvent(rid) ==
    HttpEvent(rid, "/bookings-agent/", "POST", 200, 3, "Bookings Agent", "", "", "")

\* a call of an API that no classifier knows
OtherEvent(rid, ts) ==
    HttpEvent(rid, "/weather/today", "GET", 200, ts, "Weather API", "", "", "")

\* a record that isNoise rejects
NoiseEvent(rid) ==
    HttpEvent(rid, "/hotels-mcp/mcp", "POST", 200, 1, "Hotels MCP Server",
              BodyToolsCall, "", "")

\* request ids are opaque to the code, so the n-th new id is always "req-n";
\* the ids a record can carry are those already in seen and the next new one
ReqId(n) == "req-" \o ToString(n)

IdsInPlay(limit) ==
    {seen[i] : i \in 1..Len(seen)}
        \cup (IF idsIssued < limit THEN {ReqId(idsIssued + 1)} ELSE {})

\* the records of the dedup specification: a new id, or again the oldest or
\* the newest id that seen holds; all are noise, so only seen changes
DedupEvents ==
    {NoiseEvent(rid) :
        rid \in (IF idsIssued < DedupIds THEN {ReqId(idsIssued + 1)} ELSE {})
                 \cup (IF seen = <<>> THEN {} ELSE {seen[1], seen[Len(seen)]})}

\* the records of the flow specification: every record has an id of its own,
\* and the inner records are of three kinds
FlowEvents ==
    IF idsIssued >= FlowIds THEN {}
    ELSE {AgentEvent(ReqId(idsIssued + 1))}
         \cup {ToolCallEvent(ReqId(idsIssued + 1), ts) : ts \in Timestamps}
         \cup {LLMEvent(ReqId(idsIssued + 1), ts) : ts \in Timestamps}
         \cup {OtherEvent(ReqId(idsIssued + 1), ts) : ts \in Timestamps}

\* the ids of the correlation specification: those of the HTTP records so far
\* and the next new one
PairIds(limit) ==
    {seen[i] : i \in 1..Len(seen)}
        \cup (IF Len(seen) < limit THEN {ReqId(idsIssued + 1)} ELSE {})

PublishPayloads == {BodyA2APublish, BodyUserMsg}
SubscribePayloads == {BodyA2ASubscribe}

\* the halves of agent-to-agent exchanges
A2AHalves(ids) ==
    {A2AEvent(rid, "PUBLISH", p) : rid \in ids, p \in PublishPayloads}
    \cup {A2AEvent(rid, "SUBSCRIBE", p) : rid \in ids, p \in SubscribePayloads}

\* the records of the correlation specification: halves, terminal records
\* with and without a body of their own, and tool calls
A2AEvents ==
    A2AHalves(PairIds(A2AIds))
    \cup {AgentEvent(rid) : rid \in PairIds(A2AIds)}
    \cup {BareAgentEvent(rid) : rid \in PairIds(A2AIds)}
    \cup {ToolCallEvent(rid, 1) : rid \in PairIds(A2AIds)}

\* the records of the bulk specification: the halves and the terminal record
\* of one exchange
BulkEvents ==
    {A2AEvent(rid, "PUBLISH", BodyA2APublish) : rid \in PairIds(BulkIds)}
    \cup {A2AEvent(rid, "SUBSCRIBE", BodyA2ASubscribe) : rid \in PairIds(BulkIds)}
    \cup {BareAgentEvent(rid) : rid \in PairIds(BulkIds)}

\* a line of the reporter's stream: a record written as JSON, or other text
JSONLine(evt) == [line |-> "json", record |-> evt]
TextLine(text) == [line |-> "text", text |-> text]

\* the records that the line specification sends as lines
LineEvents ==
    A2AHalves(PairIds(LineIds))
    \cup {BareAgentEvent(rid) : rid \in PairIds(LineIds)}
    \cup {ToolCallEvent(rid, 1) : rid \in PairIds(LineIds)}

\* its lines that are no records: one that is no JSON, one that is cut off
\* JSON, and one of blanks
TextLines == {TextLine(BodyNotJSON), TextLine("{\"requestId\":"), TextLine("  ")}

\* the records of the body specification: records with an id of their own
\* that classify hands to fAgent, fMCP and fLLM, with bodies that are absent,
\* no JSON, or JSON with a field of another type than the parser expects
BodyEvents ==
    IF idsIssued >= BodyIds THEN {}
    ELSE {HttpEvent(ReqId(idsIssued + 1), "/bookings-agent/", "POST", 200, 3,
                    "Bookings Agent", reqB, eRes, "") :
             reqB \in {"", BodyNotJSON, BodyPartsText},
             eRes \in {"", BodyNotJSON, BodyArtifactsMap}}
         \cup {HttpEvent(ReqId(idsIssued + 1), "/mcp-proxy/mcp", "POST", 200, 1,
                         "Hotels MCP", BodyToolsList, eRes, eRes) :
                  eRes \in {"", BodyNotJSON, BodyToolsMap}}
         \cup {HttpEvent(ReqId(idsIssued + 1), "/llm-proxy/chat/completions", "POST",
                         200, 2, "LLM Proxy", BodyLLMReq, eRes, eRes) :
                  eRes \in {"", BodyNotJSON, BodyLLMContentObj}}

\* the records of the buffer / timer specification: HTTP records only
Events ==
    {AgentEvent(rid) : rid \in IdsInPlay(NumIds)}
    \cup {ToolCallEvent(rid, ts) : rid \in IdsInPlay(NumIds), ts \in Timestamps}
    \cup {NoiseEvent(rid) : rid \in IdsInPlay(NumIds)}

\* ------------------------------------------------------------------------
\* Reporter connections (lines 617-635)
\* ------------------------------------------------------------------------
\* Texts are sequences of characters and chunks are sequences of bytes. An
\* ASCII character is one byte, written the same in both; "U+00E9" is the
\* two bytes 0xC3 0xA9 in UTF-8; "LF" is the newline.
NumConns == 2

Conns == 1..NumConns

\* line 619: let buffer = '', for a connection that was just accepted
NewSocket == [open |-> TRUE, buffer |-> <<>>, received |-> 0, handed |-> <<>>]

\* no connection: none was accepted yet, or the last one has ended
NoSocket == [open |-> FALSE, buffer |-> <<>>, received |-> 0, handed |-> <<>>]

\* the reporter's encoding of a text
RECURSIVE Encode(_)
Encode(chars) ==
    IF chars = <<>> THEN <<>>
    ELSE (IF Head(chars) = "U+00E9" THEN <<"0xC3", "0xA9">> ELSE <<Head(chars)>>)
             \o Encode(Tail(chars))

\* chunk.toString() (line 622): UTF-8 decoding of one chunk on its own; a
\* lead byte without its continuation byte, and a continuation byte without
\* its lead byte, each decode to U+FFFD
RECURSIVE toString(_)
toString(bytes) ==
    IF bytes = <<>> THEN <<>>
    ELSE IF Head(bytes) = "0xC3"
    THEN IF Len(bytes) >= 2 /\ bytes[2] = "0xA9"
         THEN <<"U+00E9">> \o toString(SubSeq(bytes, 3, Len(bytes)))
         ELSE <<"U+FFFD">> \o toString(Tail(bytes))
    ELSE IF Head(bytes) = "0xA9" THEN <<"U+FFFD">> \o toString(Tail(bytes))
    ELSE <<Head(bytes)>> \o toString(Tail(bytes))

\* text.split('\n') (line 623): the pieces between the newlines
RECURSIVE split(_)
split(chars) ==
    IF \A i \in 1..Len(chars) : chars[i] # "LF" THEN <<chars>>
    ELSE LET i == SetMin({j \in 1..Len(chars) : chars[j] = "LF"})
         IN  <<SubSeq(chars, 1, i - 1)>> \o split(SubSeq(chars, i + 1, Len(chars)))

\* line.trim()
RECURSIVE trim(_)
trim(chars) ==
    IF chars = <<>> THEN chars
    ELSE IF Head(chars) = " " THEN trim(Tail(chars))
    ELSE IF chars[Len(chars)] = " " THEN trim(SubSeq(chars, 1, Len(chars) - 1))
    ELSE chars

\* the text of a noise record: "{", then one character that stands for the
\* fields up to the opening quote of apiName and carries the request id, then
\* the characters of apiName, then "}" for its closing quote and the brace
RecordText(rid, apiName) == <<"{", rid>> \o apiName \o <<"}">>

\* JSON.parse(text) throws (line 628)
ParseThrows(chars) ==
    ~(Len(chars) >= 3 /\ chars[1] = "{" /\ chars[Len(chars)] = "}"
        /\ \A i \in 2..(Len(chars) - 1) : chars[i] \notin {"{", "}"})

\* JSON.parse(text) of a text that parses
ParseText(chars) ==
    [requestId |-> chars[2], apiName |-> SubSeq(chars, 3, Len(chars) - 1)]

\* lines 626-630: the records that the loop hands to processEvent, in order
RECURSIVE StreamRecords(_)
StreamRecords(lines) ==
    IF lines = <<>> THEN <<>>
    ELSE IF trim(Head(lines)) = <<>> \/ ParseThrows(trim(Head(lines)))
    THEN StreamRecords(Tail(lines))
    ELSE <<ParseText(trim(Head(lines)))>> \o StreamRecords(Tail(lines))

\* the request id of the k-th record of connection c
ConnId(c, k) == "conn" \o ToString(c) \o "-" \o ToString(k)

\* what connection c sends: a record with a two-byte character in apiName, a
\* blank line, and a record followed by a space, each ended by a newline
StreamText(c) ==
    RecordText(ConnId(c, 1), <<"H", "U+00E9">>) \o <<"LF">>
        \o <<" ", "LF">>
        \o RecordText(ConnId(c, 2), <<"M">>) \o <<" ", "LF">>

Stream(c) == Encode(StreamText(c))

\* lines 676-687 for noise records in a row: seen after them
RECURSIVE SeenFold(_, _)
SeenFold(set, recs) ==
    IF recs = <<>> THEN set
    ELSE SeenFold(IF SeenHas(set, Head(recs).requestId) THEN set
                  ELSE SeenAdd(set, Head(recs).requestId),
                  Tail(recs))

\* ------------------------------------------------------------------------
\* Subscribers (lines 25-32 and 766-770)
\* ------------------------------------------------------------------------
NumSubs == 2

Subs == 1..NumSubs

\* line 30: ws.readyState === 1, the WebSocket is open; 2 is closing and 3
\* closed
OPEN == 1

\* a WebSocket that has not connected
NoClient == [member |-> FALSE, readyState |-> 0, joined |-> 0, received |-> <<>>]

\* mutant of broadcast: the readyState is not looked at
broadcast_All(clients, before, after) ==
    [ws \in Subs |->
        IF clients[ws].member
        THEN [clients[ws] EXCEPT !.received = @ \o [i \in 1..(after - before) |-> before + i]]
        ELSE clients[ws]]

\* server.js broadcast, for the messages numbered before+1 .. after of sent:
\* each goes to the members of wsClients whose readyState is 1
broadcast(clients, before, after) ==
    [ws \in Subs |->
        IF clients[ws].member /\ clients[ws].readyState = OPEN
        THEN [clients[ws] EXCEPT !.received = @ \o [i \in 1..(after - before) |-> before + i]]
        ELSE clients[ws]]

\* ------------------------------------------------------------------------
\* The steps of the system
\* ------------------------------------------------------------------------
\* what lastOp holds: for a record, whether it is an A2A half and whether seen
\* held its id when it came in
Op(op, evt, wasSeen) ==
    [op |-> op, a2a |-> evt.connectorId = "agent-to-agent", wasSeen |-> wasSeen]

NoOp == [op |-> "none", a2a |-> FALSE, wasSeen |-> FALSE]

Init ==
    /\ seen = <<>>
    /\ a2aPayloads = <<>>
    /\ pendingEvents = <<>>
    /\ bufferTimeout = 0
    /\ flushTimer = 0
    /\ timers = {}
    /\ nextTimer = 1
    /\ sent = <<>>
    /\ flushLog = <<>>
    /\ seenEvictions = 0
    /\ idsIssued = 0
    /\ lastOp = NoOp
    /\ sockets = [c \in Conns |-> NoSocket]
    /\ wsClients = [ws \in Subs |-> NoClient]

\* the data handler hands one parsed record to processEvent
Ingest(evt) ==
    /\ processEvent(evt)
    /\ idsIssued' = IF evt.requestId = ReqId(idsIssued + 1) /\ ~IsA2A(evt)
                    THEN idsIssued + 1 ELSE idsIssued
    /\ lastOp' = Op("processEvent", evt, \E i \in 1..Len(seen) : seen[i] = evt.requestId)
    /\ wsClients' = broadcast(wsClients, Len(sent), Len(sent'))
    /\ UNCHANGED sockets

\* a task of the timer queue is due and its callback, flushBuffer, runs
TimerFires(t) ==
    /\ t \in timers
    /\ Remaining(t) = 0
    /\ flushBuffer(t)
    /\ lastOp' = [NoOp EXCEPT !.op = "flushBuffer"]
    /\ wsClients' = broadcast(wsClients, Len(sent), Len(sent'))
    /\ UNCHANGED <<idsIssued, sockets>>

MinRemaining == SetMin({Remaining(t) : t \in timers})

\* the lengths of time the model lets pass in one step
Delays == {FLUSH_DELAY_MS \div 2, MAX_WAIT_MS - FLUSH_DELAY_MS}

\* d ms pass: no pending task is overrun, and steps shorter than the grace
\* period are taken only within a grace period of the next deadline
Tick(d) ==
    /\ timers # {}
    /\ d <= MinRemaining
    /\ d < FLUSH_DELAY_MS => MinRemaining <= FLUSH_DELAY_MS
    /\ timers' = {[t EXCEPT !.elapsed = @ + d] : t \in timers}
    /\ pendingEvents' = [i \in 1..Len(pendingEvents) |->
                            [pendingEvents[i] EXCEPT !.age = @ + d]]
    /\ UNCHANGED <<seen, a2aPayloads, bufferTimeout, flushTimer, nextTimer, sent,
                   flushLog, seenEvictions, idsIssued, sockets, wsClients>>
    /\ lastOp' = [NoOp EXCEPT !.op = "tick"]

Next ==
    \/ \E evt \in Events : Ingest(evt)
    \/ \E t \in timers : TimerFires(t)
    \/ \E d \in Delays : Tick(d)

Spec == Init /\ [][Next]_vars

\* lines 678-684 for n records in a row with the new ids "req-from" onwards:
\* seen and the number of evictions after them
RECURSIVE DedupLines(_, _, _)
DedupLines(state, from, n) ==
    IF n = 0 THEN state
    ELSE IF n = 1
    THEN LET added == SeenAdd(state.seen, ReqId(from))
         IN  [seen |-> added,
              evictions |-> state.evictions
                  + (IF Len(added) <= Len(state.seen) THEN 1 ELSE 0)]
    ELSE LET half == DedupLines(state, from, n \div 2)
         IN  IF half.evictions < 0 THEN half   \* never; evaluates half first
             ELSE DedupLines(half, from + (n \div 2), n - (n \div 2))

\* the data handler gets a chunk of ChunkLines complete lines and hands each
\* to processEvent (lines 622-631); the records are noise with ids of their
\* own, so each passes the seen test, is added to seen and classified as null.
\* The reporter sends such a chunk after a whole number of chunks' worth of ids.
DataChunk ==
    LET after == DedupLines([seen |-> seen, evictions |-> seenEvictions],
                            idsIssued + 1, ChunkLines)
    IN  /\ idsIssued + ChunkLines <= DedupIds
        /\ idsIssued % ChunkLines = 0
        /\ classify(NoiseEvent(ReqId(idsIssued + 1))) = <<>>
        /\ seen' = after.seen
        /\ seenEvictions' = after.evictions
        /\ idsIssued' = idsIssued + ChunkLines
        /\ lastOp' = Op("processEvent", NoiseEvent(ReqId(idsIssued + ChunkLines)), FALSE)
        /\ UNCHANGED <<a2aPayloads, pendingEvents, bufferTimeout, flushTimer, timers,
                       nextTimer, sent, flushLog, sockets, wsClients>>

\* the flow specification: records of all kinds, each with an id of its own
NextFlow ==
    \/ \E evt \in FlowEvents : Ingest(evt)
    \/ \E t \in timers : TimerFires(t)
    \/ \E d \in Delays : Tick(d)

SpecFlow == Init /\ [][NextFlow]_vars

\* the first WindowIds ids belong to tool calls, which are buffered
WindowIds == 2

\* the records of the window specification: the next new id, on a tool call
\* for the first WindowIds ids and on a noise record afterwards, and a tool
\* call that carries again one of the first WindowIds ids or the oldest or
\* the newest id that seen holds
WindowEvents ==
    (IF idsIssued >= DedupIds THEN {}
     ELSE IF idsIssued < WindowIds THEN {ToolCallEvent(ReqId(idsIssued + 1), 1)}
     ELSE {NoiseEvent(ReqId(idsIssued + 1))})
    \cup {ToolCallEvent(rid, 1) :
             rid \in {ReqId(n) : n \in 1..(IF idsIssued < WindowIds THEN idsIssued
                                           ELSE WindowIds)}
                      \cup (IF seen = <<>> THEN {} ELSE {seen[1], seen[Len(seen)]})}

\* the window specification: SEEN_MAX + 1 ids come in within the safety
\* delay of the first, then ids that seen has dropped come in again
NextWindow ==
    \/ \E evt \in WindowEvents : Ingest(evt)
    \/ DataChunk

SpecWindow == Init /\ [][NextWindow]_vars

\* the dedup specification: records with ever new ids, alone or in chunks,
\* and repeats
NextDedup ==
    \/ \E evt \in DedupEvents : Ingest(evt)
    \/ DataChunk

SpecDedup == Init /\ [][NextDedup]_vars

\* lines 644-656 and 668-671 for n PUBLISH halves in a row with the new ids
\* "req-from" onwards: the Map after them
RECURSIVE A2ALines(_, _, _)
A2ALines(map, from, n) ==
    IF n = 0 THEN map
    ELSE IF n = 1
    THEN A2AEvict(A2ASet(map, ReqId(from),
                         A2AEntry(map, A2AEvent(ReqId(from), "PUBLISH", BodyA2APublish))))
    ELSE LET half == A2ALines(map, from, n \div 2)
         IN  IF Len(half) < 0 THEN half   \* never; evaluates half first
             ELSE A2ALines(half, from + (n \div 2), n - (n \div 2))

\* the data handler gets a chunk of ChunkLines complete lines and hands each
\* to processEvent (lines 622-631); the records are PUBLISH halves of
\* exchanges with ids of their own, so no buffered entry has the id of one
\* (line 659) and only a2aPayloads changes
A2AChunk ==
    /\ idsIssued + ChunkLines <= A2ABulk
    /\ {pendingEvents[i].requestId : i \in 1..Len(pendingEvents)}
           \cap {ReqId(idsIssued + n) : n \in 1..ChunkLines} = {}
    /\ a2aPayloads' = A2ALines(a2aPayloads, idsIssued + 1, ChunkLines)
    /\ idsIssued' = idsIssued + ChunkLines
    /\ lastOp' = Op("data", A2AEvent(ReqId(idsIssued + ChunkLines), "PUBLISH",
                                     BodyA2APublish), FALSE)
    /\ UNCHANGED <<seen, pendingEvents, bufferTimeout, flushTimer, timers, nextTimer,
                   sent, flushLog, seenEvictions, sockets, wsClients>>

\* line.trim() is '' (line 625)
RECURSIVE IsBlank(_)
IsBlank(text) ==
    text = "" \/ (SubSeq(text, 1, 1) = " " /\ IsBlank(SubSeq(text, 2, Len(text))))

\* JSON.parse(line.trim()) throws (line 626)
Throws(line) == line.line = "text" /\ JSONparse(line.text) = JNull

\* mutant of LinesParsed: the first line that does not parse ends the loop
RECURSIVE LinesParsed_Abort(_)
LinesParsed_Abort(lines) ==
    IF lines = <<>> THEN <<>>
    ELSE IF Head(lines).line = "text" /\ IsBlank(Head(lines).text)
    THEN LinesParsed_Abort(Tail(lines))
    ELSE IF Throws(Head(lines)) THEN <<>>
    ELSE <<Head(lines).record>> \o LinesParsed_Abort(Tail(lines))

\* lines 624-630: the records that the loop hands to processEvent, in order;
\* a blank line is skipped, a line that does not parse is caught and skipped
RECURSIVE LinesParsed(_)
LinesParsed(lines) ==
    IF lines = <<>> THEN <<>>
    ELSE IF Head(lines).line = "text" /\ IsBlank(Head(lines).text)
    THEN LinesParsed(Tail(lines))
    ELSE IF Throws(Head(lines)) THEN LinesParsed(Tail(lines))
    ELSE <<Head(lines).record>> \o LinesParsed(Tail(lines))

\* lines 644-671 for the halves recs in a row: the Map and the buffer after them
RECURSIVE A2AFold(_, _, _)
A2AFold(map, events, recs) ==
    IF recs = <<>> THEN [map |-> map, events |-> events]
    ELSE A2AFold(A2AEvict(A2ASet(map, Head(recs).requestId, A2AEntry(map, Head(recs)))),
                 EnrichPending(events, Head(recs).requestId, A2AEntry(map, Head(recs))),
                 Tail(recs))

\* the chunks of the line specification, all of complete lines: one line; a
\* line that is no JSON before or after a record; a line that is no JSON
\* before two halves
Chunks ==
    {<<JSONLine(evt)>> : evt \in LineEvents}
    \cup {<<l>> : l \in TextLines}
    \cup {<<TextLine(BodyNotJSON), JSONLine(evt)>> : evt \in LineEvents}
    \cup {<<JSONLine(evt), TextLine(BodyNotJSON)>> : evt \in LineEvents}
    \cup {<<TextLine(BodyNotJSON), JSONLine(h1), JSONLine(h2)>> :
             h1 \in A2AHalves(PairIds(LineIds)), h2 \in A2AHalves(PairIds(LineIds))}

\* the data handler for the records recs of one chunk (lines 622-631)
DataRecords(recs) ==
    IF recs = <<>> THEN UNCHANGED server
    ELSE IF Len(recs) = 1 THEN processEvent(recs[1])
    ELSE /\ a2aPayloads' = A2AFold(a2aPayloads, pendingEvents, recs).map
         /\ pendingEvents' = A2AFold(a2aPayloads, pendingEvents, recs).events
         /\ UNCHANGED <<seen, bufferTimeout, flushTimer, timers, nextTimer, sent,
                        flushLog, seenEvictions>>

\* the data handler gets a chunk of complete lines
Data(lines) ==
    /\ DataRecords(LinesParsed(lines))
    /\ idsIssued' = IF \E i \in 1..Len(lines) :
                         /\ lines[i].line = "json"
                         /\ ~IsA2A(lines[i].record)
                         /\ lines[i].record.requestId = ReqId(idsIssued + 1)
                    THEN idsIssued + 1 ELSE idsIssued
    /\ lastOp' = [op |-> "data", a2a |-> FALSE, wasSeen |-> FALSE, lines |-> lines]
    /\ wsClients' = broadcast(wsClients, Len(sent), Len(sent'))
    /\ UNCHANGED sockets

\* the line specification: chunks of lines, some of which do not parse
NextLines ==
    \/ \E lines \in Chunks : Data(lines)
    \/ \E t \in timers : TimerFires(t)
    \/ \E d \in Delays : Tick(d)

SpecLines == Init /\ [][NextLines]_vars

\* the body specification: classifiable records with bodies of all shapes
NextBodies ==
    \/ \E evt \in BodyEvents : Ingest(evt)
    \/ \E t \in timers : TimerFires(t)
    \/ \E d \in Delays : Tick(d)

SpecBodies == Init /\ [][NextBodies]_vars

\* the correlation specification: halves and terminal records of a few
\* exchanges
NextA2A ==
    \/ \E evt \in A2AEvents : Ingest(evt)
    \/ \E t \in timers : TimerFires(t)
    \/ \E d \in Delays : Tick(d)

SpecA2A == Init /\ [][NextA2A]_vars

\* the bulk specification: one exchange, and chunks of halves of other
\* exchanges
NextBulk ==
    \/ \E evt \in BulkEvents : Ingest(evt)
    \/ A2AChunk
    \/ \E t \in timers : TimerFires(t)
    \/ \E d \in Delays : Tick(d)

SpecBulk == Init /\ [][NextBulk]_vars

\* the records of the routing specification, for the request id rid: one of
\* each address family with a success and a refusal code; LLM calls that fail
\* with and without a response body of the model; records that isNoise
\* rejects for each of its reasons, and two that it just lets pass; records
\* that match the apiName rule together with another rule
RouteUris ==
    {"/bookings-agent/", "/currency-agent/", "/llm-proxy/chat/completions",
     "/mcp-proxy/mcp", "/hotels/mcp", "/hotels/accommodations", "/weather/today"}

RouteApi(uri) ==
    CASE StartsWith(uri, "/bookings-agent") -> "Bookings Agent"
      [] StartsWith(uri, "/currency-agent") -> "Currency Agent"
      [] StartsWith(uri, "/llm-proxy") -> "Chat Proxy"
      [] StartsWith(uri, "/mcp-proxy") -> "Hotels MCP"
      [] StartsWith(uri, "/hotels") -> "Hotels API"
      [] OTHER -> "Weather API"

RouteRequest(uri) ==
    CASE StartsWith(uri, "/llm-proxy") -> BodyLLMReq
      [] Includes(uri, "/mcp") -> BodyToolsCall
      [] OTHER -> ""

RouteResponse(uri) ==
    CASE StartsWith(uri, "/llm-proxy") -> BodyLLMRes
      [] Includes(uri, "/mcp") -> BodyToolsCallRes
      [] StartsWith(uri, "/bookings-agent") -> BodyAgentMsg
      [] OTHER -> ""

\* a record of a call of uri; answered: the endpoint gave a response body
RouteEvent(rid, uri, method, status, api, answered) ==
    HttpEvent(rid, uri, method, status, 1, api, RouteRequest(uri),
              IF answered THEN RouteResponse(uri) ELSE "",
              IF answered THEN RouteResponse(uri) ELSE "")

\* evt with an endpoint response time of ms
Timed(evt, ms) == [evt EXCEPT !.endpointResponseTimeMs = ms]

NoiseEvents(rid) ==
    {RouteEvent(rid, "/llm-proxy/chat/completions", m, 200, "Chat Proxy", TRUE) :
        m \in {"OPTIONS", "head", "CONNECT"}}
    \cup {RouteEvent(rid, "/bookings-agent/", "POST", 499, "Bookings Agent", FALSE),
          RouteEvent(rid, "/mcp-proxy/mcp", "POST", 504, "Hotels MCP", FALSE),
          RouteEvent(rid, "/llm-proxy/chat/completions", "POST", 504, "Chat Proxy", FALSE),
          Timed(RouteEvent(rid, "/hotels/mcp", "POST", 200, "Hotels API", TRUE), 9000),
          Timed(RouteEvent(rid, "/weather/today", "GET", 200, "Weather API", TRUE), 9000),
          RouteEvent(rid, "/hotels-mcp/mcp", "POST", 200, "Hotels MCP Server", TRUE)}

RouteEvents(rid) ==
    {RouteEvent(rid, uri, "POST", s, RouteApi(uri), TRUE) :
        uri \in RouteUris, s \in {200, 403}}
    \cup {RouteEvent(rid, "/llm-proxy/chat/completions", "POST", s, "Chat Proxy", FALSE) :
             s \in {400, 403, 429, 500}}
    \cup {RouteEvent(rid, "/llm-proxy/chat/completions", "POST", s, "Chat Proxy", TRUE) :
             s \in {400, 429}}
    \cup {[RouteEvent(rid, "/llm-proxy/chat/completions", "POST", 400, "Chat Proxy",
                      FALSE) EXCEPT !.entrypointResponse = BodyGuardrail]}
    \cup {HttpEvent(rid, uri, "POST", 200, 1, RouteApi(uri), BodyToolsList,
                    BodyToolsListRes, BodyToolsListRes) :
             uri \in {"/mcp-proxy/mcp", "/hotels/mcp"}}
    \cup {RouteEvent(rid, uri, "POST", 200, "LLM Router", TRUE) :
             uri \in {"/bookings-agent/", "/mcp-proxy/mcp", "/hotels/accommodations",
                      "/weather/today"}}
    \cup NoiseEvents(rid)

\* the data handler hands one parsed record with a new id to processEvent;
\* lastOp keeps the record
Route(evt) ==
    /\ processEvent(evt)
    /\ idsIssued' = idsIssued + 1
    /\ lastOp' = [op |-> "processEvent", a2a |-> IsA2A(evt), wasSeen |-> FALSE,
                  evt |-> evt]
    /\ wsClients' = broadcast(wsClients, Len(sent), Len(sent'))
    /\ UNCHANGED sockets

\* how many records the routing specification takes
RouteIds == 2

\* the routing specification
NextRoute ==
    \/ /\ idsIssued < RouteIds
       /\ \E evt \in RouteEvents(ReqId(idsIssued + 1)) : Route(evt)
    \/ \E t \in timers : TimerFires(t)
    \/ \E d \in Delays : Tick(d)

SpecRoute == Init /\ [][NextRoute]_vars

\* mutant of WsFrame: a WebSocket that connects is told the buffer length
WsFrame_Greeting ==
    /\ sent' = Append(sent, TxProgress(Len(pendingEvents)))
    /\ UNCHANGED <<seen, a2aPayloads, pendingEvents, bufferTimeout, flushTimer, timers,
                   nextTimer, flushLog, seenEvictions>>

\* lines 766-770: the handlers of the WebSocket server read and write
\* wsClients only
WsFrame == UNCHANGED server

\* lines 766-767: a WebSocket connects; it is open and joins wsClients
WsConnection(ws) ==
    /\ wsClients[ws] = NoClient
    /\ wsClients' = [wsClients EXCEPT ![ws] =
                         [member |-> TRUE, readyState |-> OPEN, joined |-> Len(sent),
                          received |-> <<>>]]
    /\ WsFrame
    /\ lastOp' = [NoOp EXCEPT !.op = "connection"]
    /\ UNCHANGED <<idsIssued, sockets>>

\* the closing handshake of an open WebSocket starts: it stays in wsClients
\* until its 'close' event
WsClosing(ws) ==
    /\ wsClients[ws].member
    /\ wsClients[ws].readyState = OPEN
    /\ wsClients' = [wsClients EXCEPT ![ws].readyState = 2]
    /\ UNCHANGED <<server, idsIssued, sockets>>
    /\ lastOp' = [NoOp EXCEPT !.op = "closing"]

\* line 769: the 'close' event of a WebSocket, after a handshake or at once
WsClose(ws) ==
    /\ wsClients[ws].member
    /\ wsClients' = [wsClients EXCEPT ![ws].member = FALSE, ![ws].readyState = 3]
    /\ UNCHANGED <<server, idsIssued, sockets>>
    /\ lastOp' = [NoOp EXCEPT !.op = "close"]

\* the records of the subscriber specification: inner and terminal records
\* with new ids
SubIds == 2

SubEvents ==
    IF idsIssued < SubIds
    THEN {AgentEvent(ReqId(idsIssued + 1)), ToolCallEvent(ReqId(idsIssued + 1), 1)}
    ELSE {}

\* the subscriber specification: WebSockets come and go while records are
\* taken and flushed
NextSubs ==
    \/ \E evt \in SubEvents : Ingest(evt)
    \/ \E t \in timers : TimerFires(t)
    \/ \E d \in Delays : Tick(d)
    \/ \E ws \in Subs : WsConnection(ws)
    \/ \E ws \in Subs : WsClosing(ws)
    \/ \E ws \in Subs : WsClose(ws)

SpecSubs == Init /\ [][NextSubs]_vars

\* lines 617-619: the listener accepts a connection of the reporter
SocketConnect(c) ==
    /\ ~sockets[c].open
    /\ sockets' = [sockets EXCEPT ![c] = NewSocket]
    /\ UNCHANGED <<server, idsIssued, wsClients>>
    /\ lastOp' = [NoOp EXCEPT !.op = "connect"]

\* mutant of SocketFrame: the end of a connection resets the engine
SocketFrame_Reset ==
    /\ seen' = <<>>
    /\ a2aPayloads' = <<>>
    /\ pendingEvents' = <<>>
    /\ UNCHANGED <<bufferTimeout, flushTimer, timers, nextTimer, sent, flushLog,
                   seenEvictions>>

\* lines 633-634: the 'error' and 'end' handlers of a connection only log
SocketFrame == UNCHANGED server

\* connection c ends or fails; its buffer goes with it
SocketEnd(c) ==
    /\ sockets[c].open
    /\ sockets' = [sockets EXCEPT ![c] = NoSocket]
    /\ SocketFrame
    /\ UNCHANGED <<idsIssued, wsClients>>
    /\ lastOp' = [NoOp EXCEPT !.op = "end"]

\* the data handler of the open connection c hands one parsed record to
\* processEvent
SocketRecord(c, evt) ==
    /\ sockets[c].open
    /\ Ingest(evt)

\* the records of the reconnect specification: terminal and inner records
\* and PUBLISH halves, with new ids and with ids already used
ReconIds == 2

ReconEvents ==
    {AgentEvent(rid) : rid \in PairIds(ReconIds)}
    \cup {ToolCallEvent(rid, 1) : rid \in PairIds(ReconIds)}
    \cup {A2AEvent(rid, "PUBLISH", BodyA2APublish) : rid \in PairIds(ReconIds)}

\* the reconnect specification: connections of the reporter come and go while
\* records arrive on the open ones and timers run
NextRecon ==
    \/ \E c \in Conns : SocketConnect(c)
    \/ \E c \in Conns : SocketEnd(c)
    \/ \E c \in Conns : \E evt \in ReconEvents : SocketRecord(c, evt)
    \/ \E t \in timers : TimerFires(t)
    \/ \E d \in Delays : Tick(d)

SpecRecon == Init /\ [][NextRecon]_vars

\* the data handler of connection c gets its next n bytes as one chunk
\* (lines 621-631); the records are noise (uri '/hotels-mcp/mcp'), so each
\* passes the seen test, is added to seen and classified as null
SocketData(c, n) ==
    LET s == sockets[c]
        chunk == SubSeq(Stream(c), s.received + 1, s.received + n)
        lines == split(s.buffer \o toString(chunk))
        recs == StreamRecords(SubSeq(lines, 1, Len(lines) - 1))
    IN  /\ s.open
        /\ s.received + n <= Len(Stream(c))
        /\ sockets' = [sockets EXCEPT ![c] = [open |-> TRUE,
                                              buffer |-> lines[Len(lines)],
                                              received |-> s.received + n,
                                              handed |-> s.handed \o recs]]
        /\ seen' = SeenFold(seen, recs)
        /\ lastOp' = [NoOp EXCEPT !.op = "data"]
        /\ UNCHANGED <<a2aPayloads, pendingEvents, bufferTimeout, flushTimer, timers,
                       nextTimer, sent, flushLog, seenEvictions, idsIssued,
                       wsClients>>

\* the longest chunk of the stream specification
MaxChunk == 14

\* the stream specification: each connection delivers its stream in chunks
\* cut anywhere, the chunks of the connections in any order
NextStream ==
    \/ \E c \in Conns : SocketConnect(c)
    \/ \E c \in Conns : \E n \in 1..MaxChunk : SocketData(c, n)

SpecStream == Init /\ [][NextStream]_vars

\* ------------------------------------------------------------------------
\* Properties
\* ------------------------------------------------------------------------
Flushes == 1..Len(flushLog)

IsGraceTask(t) == t.delay = FLUSH_DELAY_MS
IsSafetyTask(t) == t.delay = MAX_WAIT_MS

\* the terminal entry pushed last
LastAgent(events) ==
    events[CHOOSE i \in 1..Len(events) :
              /\ IsAgentEntry(events[i])
              /\ \A j \in (i + 1)..Len(events) : ~IsAgentEntry(events[j])]

HasAgent(events) == \E i \in 1..Len(events) : IsAgentEntry(events[i])

LiveCount == Cardinality({i \in 1..Len(sent) : sent[i].type = "live-steps"})

\* the label of the last divider of a step list
LastDividerLabel(steps) ==
    steps[CHOOSE i \in 1..Len(steps) :
             /\ steps[i].type = "divider"
             /\ \A j \in (i + 1)..Len(steps) : steps[j].type # "divider"].label

\* part occurs in whole as one contiguous run
ContainsSteps(whole, part) ==
    \E k \in 1..(Len(whole) - Len(part) + 1) :
        \A j \in 1..Len(part) : whole[k + j - 1] = part[j]

\* C1: the buffer flushes exactly once per accumulation cycle: every run of
\* flushBuffer finds at least one record pushed since the run before and
\* publishes one live-steps message, it is run by a timer that the cycle armed,
\* and no timer armed in a cycle that has flushed is pending any more.
C1_FlushOncePerCycle ==
    /\ \A i \in Flushes :
          /\ flushLog[i].events # <<>>
          /\ flushLog[i].published # 0
          /\ flushLog[i].timer.id \in {flushLog[i].bufferTimeout, flushLog[i].flushTimer}
          /\ \A t \in timers :
                t.id \notin {flushLog[i].bufferTimeout, flushLog[i].flushTimer}
    /\ \A t \in timers : t.id \in {bufferTimeout, flushTimer}
    /\ LiveCount = Len(flushLog)

\* C1 witness: a cycle flushed by its grace timer, then one flushed by its
\* safety timer
C1_Witness ==
    /\ Len(flushLog) = 2
    /\ IsGraceTask(flushLog[1].timer)
    /\ IsSafetyTask(flushLog[2].timer)
    /\ LiveCount = 2

\* C2: whichever timer runs flushBuffer, it leaves pendingEvents empty, both
\* handles null and neither of the two timers pending; the record pushed next
\* then starts a cycle of its own, with a newly armed safety timer.
C2_FlushClearsAll ==
    [][ /\ lastOp'.op = "flushBuffer" =>
              /\ pendingEvents' = <<>>
              /\ bufferTimeout' = 0
              /\ flushTimer' = 0
              /\ \A t \in timers' : t.id \notin {bufferTimeout, flushTimer}
        /\ (lastOp'.op = "processEvent" /\ lastOp.op = "flushBuffer"
              /\ pendingEvents' # <<>>) =>
              /\ Len(pendingEvents') = 1
              /\ bufferTimeout' # 0
              /\ \E t \in timers' : t.id = bufferTimeout' /\ t.elapsed = 0
      ]_vars

\* C2 witness: the safety timer ran flushBuffer while a grace timer was pending
C2_Witness ==
    /\ lastOp.op = "flushBuffer"
    /\ IsSafetyTask(flushLog[Len(flushLog)].timer)
    /\ flushLog[Len(flushLog)].flushTimer # 0
    /\ timers = {}
    /\ pendingEvents = <<>>

\* C3: while a terminal record is buffered, the grace timer is pending and has
\* run for exactly as long as the terminal record pushed last has been
\* buffered, at most FLUSH_DELAY_MS; so every flush of a buffer holding a
\* terminal record comes within FLUSH_DELAY_MS of that push, and the last
\* divider of what it publishes is the response boundary.
C3_GraceFlush ==
    /\ HasAgent(pendingEvents) =>
          \E t \in timers :
              /\ t.id = flushTimer
              /\ IsGraceTask(t)
              /\ t.elapsed = LastAgent(pendingEvents).age
              /\ t.elapsed <= FLUSH_DELAY_MS
    /\ \A i \in Flushes :
          HasAgent(flushLog[i].events) =>
              /\ LastAgent(flushLog[i].events).age <= FLUSH_DELAY_MS
              /\ flushLog[i].published # 0
              /\ LastDividerLabel(sent[flushLog[i].published].steps) = "Agent Response"

\* C3 witness: a terminal record alone, flushed by its grace timer
\* FLUSH_DELAY_MS after the push
C3_Witness ==
    \E i \in Flushes :
        /\ IsGraceTask(flushLog[i].timer)
        /\ Len(flushLog[i].events) = 1
        /\ flushLog[i].events[1].isAgent
        /\ flushLog[i].events[1].age = FLUSH_DELAY_MS
        /\ LastDividerLabel(sent[flushLog[i].published].steps) = "Agent Response"

\* C4: while the buffer holds records, the safety timer is pending and has run
\* for exactly as long as the first record has been buffered, at most
\* MAX_WAIT_MS; so every cycle is flushed within MAX_WAIT_MS of its first push,
\* and what is flushed is published: the steps of every inner record are in
\* the message.
C4_SafetyFlush ==
    /\ pendingEvents # <<>> =>
          \E t \in timers :
              /\ t.id = bufferTimeout
              /\ IsSafetyTask(t)
              /\ t.elapsed = pendingEvents[1].age
              /\ t.elapsed <= MAX_WAIT_MS
    /\ \A i \in Flushes :
          /\ flushLog[i].events # <<>>
          /\ flushLog[i].events[1].age <= MAX_WAIT_MS
          /\ flushLog[i].published # 0
          /\ \A k \in 1..Len(flushLog[i].events) :
                ~IsAgentEntry(flushLog[i].events[k]) =>
                    ContainsSteps(sent[flushLog[i].published].steps,
                                  flushLog[i].events[k].steps)

\* C4 witness: two records and no terminal one, flushed by the safety timer
\* MAX_WAIT_MS after the first push
C4_Witness ==
    \E i \in Flushes :
        /\ IsSafetyTask(flushLog[i].timer)
        /\ ~HasAgent(flushLog[i].events)
        /\ Len(flushLog[i].events) = 2
        /\ flushLog[i].events[1].age = MAX_WAIT_MS
        /\ Len(sent[flushLog[i].published].steps) = 10

\* C5: at most one grace timer is pending; a flush run by a grace timer is run
\* by the one armed last, FLUSH_DELAY_MS after the terminal record pushed last.
C5_OneGraceTimer ==
    /\ Cardinality({t \in timers : IsGraceTask(t)}) <= 1
    /\ \A i \in Flushes :
          IsGraceTask(flushLog[i].timer) =>
              /\ flushLog[i].timer.id = flushLog[i].flushTimer
              /\ HasAgent(flushLog[i].events)
              /\ LastAgent(flushLog[i].events).age = FLUSH_DELAY_MS

\* C5 witness: a second terminal record re-armed the grace timer, and the
\* flush came FLUSH_DELAY_MS after it, later than that after the first
C5_Witness ==
    \E i \in Flushes :
        /\ IsGraceTask(flushLog[i].timer)
        /\ Len(flushLog[i].events) = 2
        /\ flushLog[i].events[1].isAgent
        /\ flushLog[i].events[2].isAgent
        /\ flushLog[i].events[1].age > FLUSH_DELAY_MS
        /\ flushLog[i].events[2].age = FLUSH_DELAY_MS

ProgressCount == Cardinality({i \in 1..Len(sent) : sent[i].type = "tx-progress"})

RECURSIVE FlushedCount(_)
FlushedCount(n) == IF n = 0 THEN 0 ELSE Len(flushLog[n].events) + FlushedCount(n - 1)

RequestIdsOf(events) == {events[i].requestId : i \in 1..Len(events)}

C7_AtMostOneTerminal ==
    Cardinality({i \in 1..Len(pendingEvents) : IsAgentEntry(pendingEvents[i])}) <= 1

\* C8: an HTTP record whose requestId is in seen changes nothing: no push, no
\* timer armed or re-armed, nothing broadcast.
C8_DuplicateDropped ==
    [][ (lastOp'.op = "processEvent" /\ ~lastOp'.a2a /\ lastOp'.wasSeen) =>
            UNCHANGED <<seen, pendingEvents, bufferTimeout, flushTimer, timers,
                        nextTimer, sent, flushLog, a2aPayloads>>
      ]_vars

\* C8 witness: a repeated record came in while the buffer held records and a
\* grace timer was pending
C8_Witness ==
    /\ lastOp.op = "processEvent"
    /\ lastOp.wasSeen
    /\ pendingEvents # <<>>
    /\ \E t \in timers : IsGraceTask(t) /\ t.elapsed > 0

\* C9: seen never holds more than SEEN_MAX ids; the half-eviction has run
\* exactly once for every time the set reached SEEN_MAX + 1 ids, the first
\* time with the record number SEEN_MAX + 1, and it removes SEEN_EVICT ids.
C9_SeenBounded ==
    /\ Len(seen) <= SEEN_MAX
    /\ seenEvictions = IF idsIssued > SEEN_MAX
                       THEN 1 + ((idsIssued - SEEN_MAX - 1) \div SEEN_EVICT)
                       ELSE 0
    /\ Len(seen) = idsIssued - SEEN_EVICT * seenEvictions

\* C9 witness: SEEN_MAX + 1 records with ids of their own have come in
C9_Witness ==
    /\ idsIssued = SEEN_MAX + 1
    /\ seenEvictions = 1
    /\ Len(seen) = SEEN_MAX + 1 - SEEN_EVICT

\* a step, reduced to what the end-to-end scenario states of it
Shape(step) ==
    IF step.type = "divider" THEN <<"divider", step.label>>
    ELSE <<"arrow", step.from, step.to>>

CompleteFlowShape ==
    << <<"divider", "User Request">>,
       <<"arrow", "client", "gateway">>, <<"arrow", "gateway", "agent">>,
       <<"divider", "Tool Call" \o DASH \o "getAccommodations">>,
       <<"arrow", "agent", "gateway">>, <<"arrow", "gateway", "api">>,
       <<"arrow", "api", "gateway">>, <<"arrow", "gateway", "agent">>,
       <<"divider", "Agent Response">>,
       <<"arrow", "agent", "gateway">>, <<"arrow", "gateway", "client">> >>

IsToolCallEntry(e) == ~e.isAgent /\ StartsWith(e.uri, "/mcp-proxy")

\* C10: a terminal record and then one tools/call record, flushed together,
\* are published as one 'Complete Flow' message of exactly the eleven steps of
\* the scenario; no arrow of the terminal record's own classifier steps is in
\* it, and no other flush publishes either record.
C10_CompleteFlow ==
    \A i \in Flushes :
        LET events == flushLog[i].events
        IN  (Len(events) = 2 /\ IsAgentEntry(events[1]) /\ IsToolCallEntry(events[2])) =>
              /\ flushLog[i].published # 0
              /\ sent[flushLog[i].published].type = "live-steps"
              /\ sent[flushLog[i].published].apiName = "Complete Flow"
              /\ [k \in 1..Len(sent[flushLog[i].published].steps) |->
                     Shape(sent[flushLog[i].published].steps[k])] = CompleteFlowShape
              /\ \A k \in 1..Len(sent[flushLog[i].published].steps) :
                    \A j \in 2..Len(events[1].steps) :
                        sent[flushLog[i].published].steps[k] # events[1].steps[j]
              /\ \A j \in Flushes \ {i} :
                    RequestIdsOf(flushLog[j].events) \cap RequestIdsOf(events) = {}

\* C10 witness: the tools/call record came in half way through the grace
\* period of the terminal record, and the grace timer flushed both
C10_Witness ==
    \E i \in Flushes :
        /\ IsGraceTask(flushLog[i].timer)
        /\ Len(flushLog[i].events) = 2
        /\ IsAgentEntry(flushLog[i].events[1])
        /\ IsToolCallEntry(flushLog[i].events[2])
        /\ flushLog[i].events[1].age = FLUSH_DELAY_MS
        /\ flushLog[i].events[2].age = FLUSH_DELAY_MS \div 2
        /\ Len(sent[flushLog[i].published].steps) = 11

\* the non-terminal records of a flush, in arrival order
InnerOf(events) == SelectSeq(events, LAMBDA e : ~e.isAgent)

\* the place of the j-th inner record in the published order: after every
\* record with a smaller timestamp and every earlier one with the same
Rank(inner, j) ==
    1 + Cardinality({k \in 1..Len(inner) :
                        \/ inner[k].timestamp < inner[j].timestamp
                        \/ (inner[k].timestamp = inner[j].timestamp /\ k < j)})

ByRank(inner) ==
    [r \in 1..Len(inner) |-> inner[CHOOSE j \in 1..Len(inner) : Rank(inner, j) = r]]

RECURSIVE Flat(_)
Flat(records) == IF records = <<>> THEN <<>> ELSE records[1].steps \o Flat(Tail(records))

\* the steps of a message between the request block and the response block
InnerPart(steps, hasAgent) ==
    IF hasAgent THEN SubSeq(steps, 4, Len(steps) - 3) ELSE steps

\* C11: in every published transaction the steps of the inner records are the
\* whole step lists of these records, one after the other, in the order of
\* their timestamps, records with equal timestamps in arrival order.
C11_InnerSorted ==
    \A i \in Flushes :
        flushLog[i].published # 0 =>
            InnerPart(sent[flushLog[i].published].steps, HasAgent(flushLog[i].events))
                = Flat(ByRank(InnerOf(flushLog[i].events)))

\* C11 witness: three inner records of three kinds were flushed; the first to
\* arrive has the largest timestamp and the other two have equal timestamps
C11_Witness ==
    \E i \in Flushes :
        LET inner == InnerOf(flushLog[i].events)
        IN  /\ Len(inner) = 3
            /\ inner[1].timestamp = 2
            /\ inner[2].timestamp = 1
            /\ inner[3].timestamp = 1
            /\ Cardinality({inner[k].uri : k \in 1..3}) = 3
            /\ flushLog[i].published # 0

\* a flush that published a message and held no terminal record
OrphanFlushes ==
    {i \in Flushes : flushLog[i].published # 0 /\ ~HasAgent(flushLog[i].events)}

IsResponseStep(step) ==
    \/ step = Divider("Agent Response")
    \/ (step.type = "arrow" /\ step.to = "client")
    \/ (step.type = "arrow" /\ step.label = "A2A response")

\* C12, as claimed: a flush without terminal record publishes one boundary of
\* its own, then the steps of the inner records, and no response block.
C12_GenericLeadingBoundary ==
    \A i \in OrphanFlushes :
        LET steps == sent[flushLog[i].published].steps
        IN  /\ steps[1].type = "divider"
            /\ SubSeq(steps, 2, Len(steps)) = Flat(ByRank(InnerOf(flushLog[i].events)))
            /\ \A k \in 1..Len(steps) : ~IsResponseStep(steps[k])

\* C12, amended: a flush without terminal record publishes exactly the steps
\* of the inner records in timestamp order; the list opens with the boundary
\* step of the first of them, nothing is put in front of it, and there is no
\* request block and no response block.
C12_OrphanFlush ==
    \A i \in OrphanFlushes :
        LET steps == sent[flushLog[i].published].steps
        IN  /\ steps = Flat(ByRank(InnerOf(flushLog[i].events)))
            /\ steps[1].type = "divider"
            /\ steps[1] = ByRank(InnerOf(flushLog[i].events))[1].steps[1]
            /\ steps[1] # Divider("User Request")
            /\ \A k \in 1..Len(steps) :
                  /\ ~IsResponseStep(steps[k])
                  /\ ~(steps[k].type = "arrow" /\ steps[k].from = "client")

\* C12 witness: the safety timer flushed two inner records and no terminal one
C12_Witness ==
    \E i \in OrphanFlushes :
        /\ IsSafetyTask(flushLog[i].timer)
        /\ Len(flushLog[i].events) = 2
        /\ flushLog[i].events[1].uri # flushLog[i].events[2].uri

\* C13, as claimed: a published transaction is labelled 'Complete Flow' exactly
\* when the flush held a terminal record; otherwise its label is the apiName of
\* the inner record whose steps open the sorted step list.
C13_TopLevelLabel ==
    \A i \in Flushes :
        flushLog[i].published # 0 =>
            /\ (sent[flushLog[i].published].apiName = "Complete Flow")
                   <=> HasAgent(flushLog[i].events)
            /\ ~HasAgent(flushLog[i].events) =>
                   sent[flushLog[i].published].apiName
                       = ByRank(InnerOf(flushLog[i].events))[1].apiName

\* the last n steps
LastSteps(steps, n) == SubSeq(steps, Len(steps) - n + 1, Len(steps))

\* C14: every 'live-steps' message has steps; the first is a boundary and the
\* second a transition; the list ends with the response boundary and its two
\* transitions when a terminal record was flushed, and otherwise with the
\* whole step list of the last inner record; its length is that of the whole
\* step lists of the records published in it.
C14_WholeStepLists ==
    \A k \in 1..Len(sent) :
        sent[k].type = "live-steps" =>
            /\ Len(sent[k].steps) >= 2
            /\ sent[k].steps[1].type = "divider"
            /\ sent[k].steps[2].type = "arrow"
            /\ \E i \in Flushes :
                  LET events == flushLog[i].events
                      inner == ByRank(InnerOf(events))
                  IN  /\ flushLog[i].published = k
                      /\ Len(sent[k].steps) = Len(Flat(inner))
                                              + (IF HasAgent(events) THEN 6 ELSE 0)
                      /\ IF HasAgent(events)
                         THEN /\ LastSteps(sent[k].steps, 3)[1] = Divider("Agent Response")
                              /\ LastSteps(sent[k].steps, 3)[2].type = "arrow"
                              /\ LastSteps(sent[k].steps, 3)[3].type = "arrow"
                              /\ LastSteps(sent[k].steps, 3)[3].to = "client"
                         ELSE LastSteps(sent[k].steps, Len(inner[Len(inner)].steps))
                                  = inner[Len(inner)].steps

\* C14 witness: a message that ends with the response block and a message
\* that ends with the steps of an inner record have both been sent
C14_Witness ==
    /\ \E i \in Flushes : flushLog[i].published # 0 /\ HasAgent(flushLog[i].events)
                          /\ InnerOf(flushLog[i].events) # <<>>
    /\ OrphanFlushes # {}

\* the text that a payload of the model carries
TextIn(payload) ==
    CASE payload = BodyA2APublish -> "Hotels near the Louvre"
      [] payload = BodyUserMsg -> "Find hotels in Paris"
      [] payload = BodyA2ASubscribe -> "Two hotels found"
      [] payload = BodyAgentMsg -> "Here are 3 hotels"
      [] OTHER -> ""

\* the step handed a correlation half to processEvent
A2AStep == lastOp'.op = "processEvent" /\ lastOp'.a2a

\* the step pushed a terminal record
AgentPushed ==
    /\ lastOp'.op = "processEvent"
    /\ Len(pendingEvents') = Len(pendingEvents) + 1
    /\ pendingEvents'[Len(pendingEvents')].isAgent

\* C15: a half for R writes its payload and text into the entry of R and
\* leaves the other half of that entry, the place of the entry and every other
\* entry as they were, so that after both halves, in either order, the entry
\* holds both payloads; an entry with one half has nothing for the other, and
\* a terminal record that reads it is pushed in that step with just that half.
C15_HalvesCorrelate ==
    [][/\ A2AStep =>
            \E rid \in PairIds(A2AIds) :
                LET old == A2AGet(a2aPayloads, rid)
                    new == A2AGet(a2aPayloads', rid)
                IN  /\ A2AIndex(a2aPayloads', rid) # 0
                    /\ A2AIndex(a2aPayloads, rid) # 0
                          => A2AIndex(a2aPayloads', rid) = A2AIndex(a2aPayloads, rid)
                    /\ \/ \E p \in PublishPayloads :
                             new = [old EXCEPT !.request = p, !.userText = TextIn(p)]
                       \/ \E p \in SubscribePayloads :
                             new = [old EXCEPT !.response = p, !.agentText = TextIn(p)]
                    /\ \A other \in PairIds(A2AIds) \ {rid} :
                          A2AGet(a2aPayloads', other) = A2AGet(a2aPayloads, other)
       /\ AgentPushed =>
            LET e == pendingEvents'[Len(pendingEvents')]
                a2a == A2AGet(a2aPayloads, e.requestId)
            IN  /\ e.agentRawRequest = a2a.request
                /\ e.userText = a2a.userText
                /\ a2a.request = "" => e.userText = ""
                /\ a2aPayloads' = a2aPayloads
       ]_vars

\* C15 witness: the entry of one exchange holds both halves, that of another
\* only its SUBSCRIBE half, and a buffered terminal record of that other
\* exchange has the response of the half and no request
C15_Witness ==
    \E r1, r2 \in {ReqId(n) : n \in 1..A2AIds} :
        /\ r1 # r2
        /\ A2AGet(a2aPayloads, r1).request = BodyA2APublish
        /\ A2AGet(a2aPayloads, r1).response = BodyA2ASubscribe
        /\ A2AGet(a2aPayloads, r2).request = ""
        /\ A2AGet(a2aPayloads, r2).response = BodyA2ASubscribe
        /\ \E i \in 1..Len(pendingEvents) :
              /\ pendingEvents[i].isAgent
              /\ pendingEvents[i].requestId = r2
              /\ pendingEvents[i].agentRawResponse = BodyA2ASubscribe
              /\ pendingEvents[i].agentRawRequest = ""

\* the keys of the Map
A2AKeys(map) == {map[i].rid : i \in 1..Len(map)}

\* the step ran flushBuffer on a buffer with a terminal record
AgentFlushed == lastOp'.op = "flushBuffer" /\ HasAgent(pendingEvents)

\* C16: a2aPayloads never holds more than 500 entries; a half with a new key
\* that finds 500 entries leaves the 250 newest of them and its own entry,
\* any other half removes nothing; after a chunk of halves the entry written
\* last is there and what is left of the older entries is the newest of them;
\* a flush removes the entry of the terminal record it publishes, and no other.
C16_TableBounded ==
    [][/\ Len(a2aPayloads') <= A2A_MAX
       /\ A2AStep =>
            \E rid \in PairIds(BulkIds) :
                /\ rid \in A2AKeys(a2aPayloads')
                /\ IF rid \notin A2AKeys(a2aPayloads) /\ Len(a2aPayloads) = A2A_MAX
                   THEN /\ Len(a2aPayloads') = A2A_MAX - A2A_EVICT + 1
                        /\ SubSeq(a2aPayloads', 1, A2A_MAX - A2A_EVICT)
                              = SubSeq(a2aPayloads, A2A_EVICT + 1, A2A_MAX)
                        /\ a2aPayloads'[Len(a2aPayloads')].rid = rid
                   ELSE A2AKeys(a2aPayloads) \subseteq A2AKeys(a2aPayloads')
       /\ lastOp'.op = "data" =>
            /\ a2aPayloads'[Len(a2aPayloads')].rid = ReqId(idsIssued')
            /\ \E k \in {0, A2A_EVICT, 2 * A2A_EVICT} :
                  /\ Len(a2aPayloads') =
                        Cardinality(A2AKeys(a2aPayloads)
                                    \cup {ReqId(n) : n \in (idsIssued + 1)..idsIssued'}) - k
                  /\ \A i \in 1..Len(a2aPayloads) :
                        a2aPayloads[i].rid \in A2AKeys(a2aPayloads') <=> i > k
       /\ AgentFlushed =>
            /\ pendingEvents[AgentIndex(pendingEvents)].requestId
                  \notin A2AKeys(a2aPayloads')
            /\ a2aPayloads' =
                  SelectSeq(a2aPayloads,
                            LAMBDA e : e.rid # pendingEvents[AgentIndex(pendingEvents)].requestId)
       ]_vars

\* C16 witness: a half with a new key has just found 500 entries: the Map
\* holds the 250 newest of them and, last, the entry of that half
C16_Witness ==
    /\ lastOp.op = "processEvent" /\ lastOp.a2a
    /\ Len(a2aPayloads) = A2A_MAX - A2A_EVICT + 1
    /\ a2aPayloads[1].rid = ReqId(A2A_EVICT + 1)
    /\ a2aPayloads[Len(a2aPayloads)].rid = ReqId(A2A_MAX + 1)

\* C17: no step of processEvent removes from a2aPayloads an entry whose key
\* is the requestId of a terminal record that is in the buffer.
C17_PendingEntryKept ==
    [][lastOp'.a2a =>
          \A i \in 1..Len(pendingEvents) :
              (pendingEvents[i].isAgent
                  /\ pendingEvents[i].requestId \in A2AKeys(a2aPayloads))
                  => pendingEvents[i].requestId \in A2AKeys(a2aPayloads')
      ]_vars

\* the four fields of a buffered terminal record that a correlation entry can
\* fill, as <<request, request text, response, response text>>
Merged(e) == <<e.agentRawRequest, e.userText, e.agentRawResponse, e.agentText>>
Halves(a2a) == <<a2a.request, a2a.userText, a2a.response, a2a.agentText>>

\* what a terminal record that has held m all along shows after a2a is merged
Filled(m, a2a) == [f \in 1..4 |-> IF m[f] # "" THEN m[f] ELSE Halves(a2a)[f]]

\* the message that the step published
Published == sent'[Len(sent')]

\* C18: a buffered terminal record takes from the correlation entry of its
\* requestId every field it does not hold, when it is pushed and with every
\* later half, and keeps every field it holds; the published request leg
\* shows the request text and payload so merged, the response legs the
\* response payload.
C18_HalvesMerged ==
    [][/\ AgentPushed =>
            LET e == pendingEvents'[Len(pendingEvents')]
                a2a == A2AGet(a2aPayloads, e.requestId)
            IN  \E own \in {<<"", "", "", "">>,
                            <<"", "", BodyAgentMsg, TextIn(BodyAgentMsg)>>} :
                    Merged(e) = Filled(own, a2a)
       /\ A2AStep =>
            /\ Len(pendingEvents') = Len(pendingEvents)
            /\ \A i \in 1..Len(pendingEvents) :
                  IF pendingEvents[i].isAgent
                  THEN Merged(pendingEvents'[i])
                          = Filled(Merged(pendingEvents[i]),
                                   A2AGet(a2aPayloads', pendingEvents[i].requestId))
                  ELSE pendingEvents'[i] = pendingEvents[i]
       /\ AgentFlushed =>
            LET e == pendingEvents[AgentIndex(pendingEvents)]
                m == Filled(Merged(e), A2AGet(a2aPayloads, e.requestId))
                n == Len(Published.steps)
            IN  /\ Published.steps[2].message.rawDetail = OrNull(m[1], "")
                /\ Published.steps[2].message.text = Or(m[2], "User request to agent")
                /\ Published.steps[n - 1].message.rawDetail = OrNull(m[3], "")
                /\ Published.steps[n].message.rawDetail = OrNull(m[3], "")
       ]_vars

\* C18 witness: a transaction was published with the request of a PUBLISH half
\* and the response body of its terminal record, and a buffered terminal
\* record holds the request of a first PUBLISH half and its own response body
\* while the correlation entry holds a later PUBLISH half and a SUBSCRIBE half
C18_Witness ==
    /\ \E k \in 1..Len(sent) :
          /\ sent[k].type = "live-steps"
          /\ sent[k].apiName = "Complete Flow"
          /\ sent[k].steps[2].message.rawDetail = BodyA2APublish
          /\ sent[k].steps[2].message.text = "Hotels near the Louvre"
          /\ sent[k].steps[Len(sent[k].steps)].message.rawDetail = BodyAgentMsg
    /\ \E i \in 1..Len(pendingEvents) :
          /\ pendingEvents[i].isAgent
          /\ pendingEvents[i].agentRawRequest = BodyA2APublish
          /\ pendingEvents[i].agentRawResponse = BodyAgentMsg
          /\ A2AGet(a2aPayloads, pendingEvents[i].requestId).request = BodyUserMsg
          /\ A2AGet(a2aPayloads, pendingEvents[i].requestId).response = BodyA2ASubscribe

\* no half of the exchange of e has been ingested
NoHalf(map, e) ==
    /\ e.requestId \notin A2AKeys(map)
    /\ e.agentRawRequest = ""
    /\ e.agentRawResponse \in {"", BodyAgentMsg}

\* C19: a buffered terminal record without any correlation half has the 500 ms
\* timer of every terminal record, and the flush of a buffer whose terminal
\* record has none publishes one message: the request block with the generic
\* text and no payload, the inner steps, and the response block.
C19_NoHalfDegrades ==
    [][/\ (HasAgent(pendingEvents') /\ NoHalf(a2aPayloads', LastAgent(pendingEvents')))
            => \E t \in timers' :
                  /\ t.id = flushTimer'
                  /\ IsGraceTask(t)
                  /\ Remaining(t) = FLUSH_DELAY_MS - LastAgent(pendingEvents').age
       /\ (AgentFlushed
              /\ NoHalf(a2aPayloads, pendingEvents[AgentIndex(pendingEvents)]))
            => LET inner == Flat(ByRank(InnerOf(pendingEvents)))
                   n == Len(Published.steps)
               IN  /\ Len(sent') = Len(sent) + 1
                   /\ pendingEvents' = <<>>
                   /\ Published.type = "live-steps"
                   /\ n = Len(inner) + 6
                   /\ Published.steps[1] = Divider("User Request")
                   /\ Published.steps[2].from = "client"
                   /\ Published.steps[2].message.text = "User request to agent"
                   /\ Published.steps[2].message.rawDetail = null
                   /\ Published.steps[3].to = "agent"
                   /\ SubSeq(Published.steps, 4, n - 3) = inner
                   /\ Published.steps[n - 2] = Divider("Agent Response")
                   /\ Published.steps[n - 1].from = "agent"
                   /\ Published.steps[n].to = "client"
       ]_vars

\* C19 witness: the 500 ms timer flushed a terminal record without any half
\* and an inner record, and the message has the generic request text
C19_Witness ==
    \E i \in Flushes :
        /\ flushLog[i].published # 0
        /\ IsGraceTask(flushLog[i].timer)
        /\ HasAgent(flushLog[i].events)
        /\ InnerOf(flushLog[i].events) # <<>>
        /\ flushLog[i].events[AgentIndex(flushLog[i].events)].userText = ""
        /\ flushLog[i].events[AgentIndex(flushLog[i].events)].agentRawRequest = ""
        /\ flushLog[i].events[AgentIndex(flushLog[i].events)].age = FLUSH_DELAY_MS
        /\ sent[flushLog[i].published].steps[2].message.text = "User request to agent"
        /\ sent[flushLog[i].published].steps[2].message.rawDetail = null
        /\ Len(sent[flushLog[i].published].steps) > 6

\* the lines of a chunk that are records, and those of them that are halves
\* of the exchange rid with the given operation
RecordLines(lines) == SelectSeq(lines, LAMBDA l : l.line = "json")
HalfLines(lines, rid, operation) ==
    SelectSeq(lines, LAMBDA l : /\ l.line = "json"
                                /\ l.record.connectorId = "agent-to-agent"
                                /\ l.record.requestId = rid
                                /\ l.record.operation = operation)

\* the payload of the first and of the last of these lines
FirstPayload(halves, default) ==
    IF halves = <<>> THEN default ELSE halves[1].record.payload
LastPayload(halves, default) ==
    IF halves = <<>> THEN default ELSE halves[Len(halves)].record.payload

\* what a chunk may change
Pipeline == <<seen, a2aPayloads, pendingEvents, bufferTimeout, flushTimer, timers, sent>>

\* C20: a chunk whose lines are all no JSON changes nothing and broadcasts
\* nothing; in a chunk with such a line the records are still processed, in
\* order: an HTTP record with a new id is added to seen and buffered, the
\* table has for each exchange the payloads of the last halves of the chunk,
\* and a buffered terminal record without request takes that of the first
\* PUBLISH half of the chunk.
C20_BadLineSkipped ==
    [][lastOp'.op = "data" =>
          LET lines == lastOp'.lines
              recs == RecordLines(lines)
              http == SelectSeq(recs, LAMBDA l : l.record.connectorId = "")
          IN  /\ recs = <<>> => Pipeline' = Pipeline
              /\ \A rid \in {recs[i].record.requestId : i \in 1..Len(recs)} :
                    /\ A2AGet(a2aPayloads', rid).request
                          = LastPayload(HalfLines(lines, rid, "PUBLISH"),
                                        A2AGet(a2aPayloads, rid).request)
                    /\ A2AGet(a2aPayloads', rid).response
                          = LastPayload(HalfLines(lines, rid, "SUBSCRIBE"),
                                        A2AGet(a2aPayloads, rid).response)
                    /\ \A i \in 1..Len(pendingEvents) :
                          (pendingEvents[i].isAgent /\ pendingEvents[i].requestId = rid)
                             => pendingEvents'[i].agentRawRequest
                                   = Or(pendingEvents[i].agentRawRequest,
                                        FirstPayload(HalfLines(lines, rid, "PUBLISH"), ""))
              /\ http # <<>> =>
                    IF SeenHas(seen, http[1].record.requestId)
                    THEN Pipeline' = Pipeline
                    ELSE /\ seen' = Append(seen, http[1].record.requestId)
                         /\ Len(pendingEvents') = Len(pendingEvents) + 1
                         /\ pendingEvents'[Len(pendingEvents')].requestId
                               = http[1].record.requestId
                         /\ sent' = Append(sent, [type |-> "tx-progress",
                                                  buffered |-> Len(pendingEvents')])
      ]_vars

\* C20 witness: the last chunk was a line that is no JSON and then two PUBLISH
\* halves of one exchange; its buffered terminal record has the payload of
\* the first, the table that of the second
C20_Witness ==
    /\ lastOp.op = "data"
    /\ \E rid \in {ReqId(n) : n \in 1..LineIds} :
          /\ lastOp.lines = <<TextLine(BodyNotJSON),
                              JSONLine(A2AEvent(rid, "PUBLISH", BodyA2APublish)),
                              JSONLine(A2AEvent(rid, "PUBLISH", BodyUserMsg))>>
          /\ A2AGet(a2aPayloads, rid).request = BodyUserMsg
          /\ \E i \in 1..Len(pendingEvents) :
                /\ pendingEvents[i].requestId = rid
                /\ pendingEvents[i].isAgent
                /\ pendingEvents[i].agentRawRequest = BodyA2APublish

\* C21: a record that reaches a classifier is never lost once its id is in
\* seen, whatever its bodies are: every id of seen is the id of a buffered
\* record or of a record that a flush has taken.
C21_ClassifiedBuffered ==
    \A i \in 1..Len(seen) :
        \/ seen[i] \in RequestIdsOf(pendingEvents)
        \/ \E f \in Flushes : seen[i] \in RequestIdsOf(flushLog[f].events)

\* the prefix of connection c's stream that has arrived
Arrived(c) == SubSeq(Stream(c), 1, sockets[c].received)

\* the newline-terminated lines of a text
WholeLines(chars) == SubSeq(split(chars), 1, Len(split(chars)) - 1)

\* the lines of connection c's text whose newline has arrived
LinesArrived(c) ==
    SubSeq(WholeLines(StreamText(c)), 1,
           Cardinality({i \in 1..Len(Arrived(c)) : Arrived(c)[i] = "LF"}))

\* C22: however a connection's bytes are cut into chunks and interleaved with
\* those of other connections, the records handed to processEvent from it are
\* the records of its newline-terminated lines that have arrived, in order,
\* and its buffer holds no newline.
C22_LinesInOrder ==
    \A c \in Conns :
        /\ sockets[c].handed = StreamRecords(LinesArrived(c))
        /\ \A i \in 1..Len(sockets[c].buffer) : sockets[c].buffer[i] # "LF"

\* C23: a record of an agent-to-agent exchange with a payload touches nothing
\* but the correlation table and the fields it copies into a buffered terminal
\* record: seen is not consulted or changed, no steps are made, the buffer
\* keeps its length, ids and steps, no timer is set or cleared, and nothing
\* is sent.
C23_A2AOnlyCorrelates ==
    [][A2AStep =>
          /\ seen' = seen
          /\ seenEvictions' = seenEvictions
          /\ Len(pendingEvents') = Len(pendingEvents)
          /\ \A i \in 1..Len(pendingEvents) :
                /\ pendingEvents'[i].requestId = pendingEvents[i].requestId
                /\ pendingEvents'[i].steps = pendingEvents[i].steps
          /\ timers' = timers
          /\ bufferTimeout' = bufferTimeout
          /\ flushTimer' = flushTimer
          /\ nextTimer' = nextTimer
          /\ sent' = sent
          /\ flushLog' = flushLog]_vars

\* a half whose id seen already held has been taken while a terminal record
\* was buffered and a timer was pending
C23_Witness ==
    /\ lastOp.op = "processEvent"
    /\ lastOp.a2a
    /\ lastOp.wasSeen
    /\ \E i \in 1..Len(pendingEvents) :
          /\ pendingEvents[i].isAgent
          /\ pendingEvents[i].agentRawRequest = BodyA2APublish
    /\ timers # {}
    /\ flushTimer # 0

\* the step handed a record to processEvent
RouteStep == lastOp'.op = "processEvent"

\* C24: a record that isNoise rejects has no effect but its id in seen: no
\* classifier is chosen for it, it is not appended to the buffer, no timer is
\* set or cleared, and nothing is sent; this holds for each reason isNoise
\* has, whatever classifier the address would select.
C24_NoiseDropped ==
    [][RouteStep /\ isNoise(lastOp'.evt) =>
          /\ Classifier(lastOp'.evt) = "null"
          /\ classify(lastOp'.evt) = <<>>
          /\ pendingEvents' = pendingEvents
          /\ timers' = timers
          /\ bufferTimeout' = bufferTimeout
          /\ flushTimer' = flushTimer
          /\ nextTimer' = nextTimer
          /\ sent' = sent
          /\ a2aPayloads' = a2aPayloads
          /\ flushLog' = flushLog]_vars

\* a noise record of a terminal address has been taken while another record
\* was buffered and the safety timer pending
C24_Witness ==
    /\ lastOp.op = "processEvent"
    /\ isNoise(lastOp.evt)
    /\ lastOp.evt.status = 499
    /\ IsAgentUri(lastOp.evt.uri)
    /\ Len(pendingEvents) = 1
    /\ bufferTimeout # 0
    /\ flushTimer = 0

\* the address starts with none of the prefixes classify knows
NoKnownPrefix(uri) ==
    \A p \in {"/bookings-agent", "/currency-agent", "/llm-proxy", "/mcp-proxy",
              "/hotels"} : ~StartsWith(uri, p)

\* the step took a well-formed record of an unknown address that is no noise
UnknownStep ==
    /\ RouteStep
    /\ ~lastOp'.evt.jvm
    /\ lastOp'.evt.uri # ""
    /\ lastOp'.evt.requestId # ""
    /\ NoKnownPrefix(lastOp'.evt.uri)
    /\ ~isNoise(lastOp'.evt)

\* the step appended an entry for its record, told the clients, and left the
\* safety timer pending
Appended ==
    /\ Len(pendingEvents') = Len(pendingEvents) + 1
    /\ pendingEvents'[Len(pendingEvents')].requestId = lastOp'.evt.requestId
    /\ pendingEvents'[Len(pendingEvents')].steps # <<>>
    /\ sent' = Append(sent, [type |-> "tx-progress", buffered |-> Len(pendingEvents')])
    /\ \E t \in timers' : t.id = bufferTimeout'

\* one boundary and one transition from the caller to the gateway
GenericPair(steps) ==
    /\ Len(steps) = 2
    /\ steps[1].type = "divider"
    /\ Shape(steps[2]) = <<"arrow", "agent", "gateway">>

\* part is a run of consecutive steps of steps
Contains(steps, part) ==
    \E k \in 0..(Len(steps) - Len(part)) : SubSeq(steps, k + 1, k + Len(part)) = part

\* the claim as stated: every well-formed record of an unknown address that
\* is no noise is appended with the generic pair
C25_UnknownPrefixGeneric ==
    [][UnknownStep =>
          /\ Appended
          /\ GenericPair(pendingEvents'[Len(pendingEvents')].steps)]_vars

\* C25: a well-formed record of an unknown address that is no noise is never
\* dropped: it is appended to the buffer, and the next flush publishes its
\* steps and empties the buffer. Its steps are the generic pair, one boundary
\* and one transition from the caller to the gateway, unless its apiName
\* contains 'LLM': then they are the steps of the LLM classifier.
C25_UnknownBuffered ==
    [][/\ UnknownStep => Appended
       /\ UnknownStep /\ ~Includes(lastOp'.evt.apiName, "LLM") =>
              GenericPair(pendingEvents'[Len(pendingEvents')].steps)
       /\ UnknownStep /\ Includes(lastOp'.evt.apiName, "LLM") =>
              pendingEvents'[Len(pendingEvents')].steps = classify(lastOp'.evt)
                 /\ \E i \in 1..Len(classify(lastOp'.evt)) :
                       Shape(classify(lastOp'.evt)[i]) = <<"arrow", "gateway", "llm">>
       /\ lastOp'.op = "flushBuffer" /\ pendingEvents # <<>> =>
              /\ pendingEvents' = <<>>
              /\ \A i \in 1..Len(pendingEvents) :
                    ~pendingEvents[i].isAgent =>
                        Contains(Published.steps, pendingEvents[i].steps)]_vars

\* the generic pair of a record of an unknown API has been published
C25_Witness ==
    \E k \in 1..Len(sent) :
        /\ sent[k].type = "live-steps"
        /\ \E j \in 1..(Len(sent[k].steps) - 1) :
              /\ sent[k].steps[j] = Divider("Weather API" \o DASH \o "POST /weather/today")
              /\ Shape(sent[k].steps[j + 1]) = <<"arrow", "agent", "gateway">>
              /\ sent[k].steps[j + 1].badge.type = "warn"

\* the step took a record that classify hands to fLLM, with a code of 400 or
\* more and no body of the endpoint's response
BlockedStep ==
    /\ RouteStep
    /\ Classifier(lastOp'.evt) = "fLLM"
    /\ lastOp'.evt.status >= 400
    /\ lastOp'.evt.endpointResponse = ""

\* the steps of the entry that the step appended
NewSteps == pendingEvents'[Len(pendingEvents')].steps

\* C26: an LLM record with a code of 400 or more and no response body of the
\* endpoint gets one boundary and exactly two transitions, caller to gateway
\* and gateway to caller, and no step from or to the language model.
C26_BlockedTwoLegs ==
    [][BlockedStep =>
          /\ Len(pendingEvents') = Len(pendingEvents) + 1
          /\ Len(NewSteps) = 3
          /\ NewSteps[1].type = "divider"
          /\ Shape(NewSteps[2]) = <<"arrow", "agent", "gateway">>
          /\ Shape(NewSteps[3]) = <<"arrow", "gateway", "agent">>
          /\ \A i \in 2..Len(NewSteps) :
                NewSteps[i].from # "llm" /\ NewSteps[i].to # "llm"]_vars

\* a refused LLM call without a response body is buffered next to a failed
\* one that the model answered
C26_Witness ==
    \E i, j \in 1..Len(pendingEvents) :
        /\ pendingEvents[i].steps[1] = Divider("LLM" \o DASH \o "Blocked by Policy")
        /\ Len(pendingEvents[i].steps) = 3
        /\ pendingEvents[i].steps[3].message.rawDetail = BodyGuardrail
        /\ Len(pendingEvents[j].steps) = 5
        /\ pendingEvents[j].steps[4].label = "429"

\* the policies on the request leg of the entry that the step appended
NewPolicies == NewSteps[2].policies

\* C27: the request leg of every LLM record that is treated as blocked before
\* the model (code of 400 or more, no response body of the endpoint) shows at
\* least one policy that did not pass.
C27_BlockedHasFailedPolicy ==
    [][BlockedStep => \E i \in 1..Len(NewPolicies) : ~NewPolicies[i].passed]_vars

\* the step took a record that classify hands to cls
ClassifiedStep(cls) ==
    /\ RouteStep
    /\ Classifier(lastOp'.evt) = cls
    /\ Len(pendingEvents') = Len(pendingEvents) + 1

\* the policy called name did not pass
Failed(policies, name) ==
    \E i \in 1..Len(policies) : policies[i].name = name /\ ~policies[i].passed

\* C28: the policies shown follow from the code: on an LLM call every code
\* from 400 to 499 shows the guard rails as failed and 429 shows the rate
\* limit as failed; on a call that succeeds, LLM or MCP with OAuth2, every
\* policy is shown as passed.
C28_PoliciesFromCode ==
    [][/\ ClassifiedStep("fLLM") =>
              /\ lastOp'.evt.status \in 400..499 => Failed(NewPolicies, "AI Guardrails")
              /\ lastOp'.evt.status = 429 => Failed(NewPolicies, "Token Rate Limit")
       /\ (ClassifiedStep("fLLM") \/ ClassifiedStep("fMCP OAuth2"))
             /\ lastOp'.evt.status \in 200..299 =>
              /\ Len(NewPolicies) = 2
              /\ \A i \in 1..Len(NewPolicies) : NewPolicies[i].passed]_vars

\* the last step of the entry that the step appended
FinalStep == NewSteps[Len(NewSteps)]

\* C29: the last step of the step list of every record that a classifier
\* handles is a transition whose badge has the class st gives for the
\* record's code, so 'ok' for every code from 200 to 299; st gives 'ok' from
\* 200 to 299, 'warn' from 400 to 499 and 'err' for every other code.
C29_FinalBadge ==
    [][/\ RouteStep /\ Classifier(lastOp'.evt) # "null" =>
              /\ Len(pendingEvents') = Len(pendingEvents) + 1
              /\ FinalStep.type = "arrow"
              /\ FinalStep.badge.type = st(lastOp'.evt.status)
              /\ lastOp'.evt.status \in 200..299 => FinalStep.badge.type = "ok"
       /\ \A s \in 0..600 :
              st(s) = IF s \in 200..299 THEN "ok"
                      ELSE IF s \in 400..499 THEN "warn" ELSE "err"]_vars

\* a record of each known prefix has been buffered with the badge 'ok' on
\* its last step: two of them are in the buffer, of different classifiers
C29_Witness ==
    /\ Len(pendingEvents) = 2
    /\ pendingEvents[1].uri = "/currency-agent/"
    /\ pendingEvents[2].uri = "/hotels/mcp"
    /\ \A i \in 1..2 :
          pendingEvents[i].steps[Len(pendingEvents[i].steps)].badge.type = "ok"

\* the rules of classify in their order; the result of each
RuleClass ==
    <<"fAgent", "fCurrency", "fLLM", "fMCP OAuth2", "fMCP Keyless", "null", "fOther">>

\* the address satisfies the prefix test of rule k
PrefixMatches(k, uri) ==
    CASE k = 1 -> StartsWith(uri, "/bookings-agent")
      [] k = 2 -> StartsWith(uri, "/currency-agent")
      [] k = 3 -> StartsWith(uri, "/llm-proxy")
      [] k = 4 -> StartsWith(uri, "/mcp-proxy")
      [] k = 5 -> StartsWith(uri, "/hotels") /\ Includes(uri, "/mcp")
      [] k = 6 -> StartsWith(uri, "/hotels")
      [] OTHER -> TRUE

\* the record satisfies rule k: rule 3 also takes an apiName with 'LLM'
Matches(k, evt) ==
    PrefixMatches(k, evt.uri) \/ (k = 3 /\ Includes(evt.apiName, "LLM"))

\* what the classifier cls returns for the record
StepsOf(cls, evt) ==
    CASE cls = "fAgent" -> fAgent(evt, ClassifyData(evt))
      [] cls = "fCurrency" -> fCurrency(evt, ClassifyData(evt))
      [] cls = "fLLM" -> fLLM(evt, ClassifyData(evt))
      [] cls = "fMCP OAuth2" -> fMCP(evt, ClassifyData(evt), "OAuth2")
      [] cls = "fMCP Keyless" -> fMCP(evt, ClassifyData(evt), "Keyless")
      [] cls = "fOther" -> fOther(evt, ClassifyData(evt))
      [] OTHER -> <<>>

\* the step handled its record with the classifier cls and no other: nothing
\* is appended for "null"
HandledBy(cls) ==
    IF cls = "null" THEN pendingEvents' = pendingEvents
    ELSE /\ Len(pendingEvents') = Len(pendingEvents) + 1
         /\ NewSteps = StepsOf(cls, lastOp'.evt)
         /\ \A other \in {RuleClass[k] : k \in 1..7} \ {cls} :
               NewSteps # StepsOf(other, lastOp'.evt)

\* the claim as stated: the classifier is that of the first, most specific,
\* prefix the address matches
C30_PrefixDecides ==
    [][RouteStep /\ ~isNoise(lastOp'.evt) =>
          HandledBy(RuleClass[SetMin({k \in 1..7 : PrefixMatches(k, lastOp'.evt.uri)})])]_vars

\* C30: every record that is no noise is handled by exactly one classifier,
\* that of the first rule it matches in the fixed order of classify: the
\* longer of two matching prefixes comes first and the fallback last; the
\* LLM rule also matches by apiName, so a record named 'LLM' is handled by
\* fLLM unless its address is that of an agent.
C30_FirstRuleDecides ==
    [][RouteStep /\ ~isNoise(lastOp'.evt) =>
          HandledBy(RuleClass[SetMin({k \in 1..7 : Matches(k, lastOp'.evt)})])]_vars

\* two records that match several rules are buffered: a terminal one named
\* 'LLM', handled by fAgent, and an MCP call without OAuth2 under '/hotels'
C30_Witness ==
    /\ Len(pendingEvents) = 2
    /\ pendingEvents[1].uri = "/hotels/mcp"
    /\ pendingEvents[1].steps[2].plan = "Keyless"
    /\ Len(pendingEvents[1].steps) = 5
    /\ pendingEvents[2].uri = "/bookings-agent/"
    /\ pendingEvents[2].apiName = "LLM Router"
    /\ pendingEvents[2].steps[1] = Divider("User Request")

\* the record of the step is a call that the gateway passes on: a currency
\* agent call, an LLM call that is not blocked, an MCP tools/call
ProxiedCall(evt) ==
    \/ Classifier(evt) = "fCurrency"
    \/ Classifier(evt) = "fLLM" /\ ~BlockedAtGateway(ClassifyData(evt))
    \/ Classifier(evt) \in {"fMCP OAuth2", "fMCP Keyless"}
          /\ parseMCP(evt.entrypointRequest).method = "tools/call"

\* the record of the step is a call that the gateway answers itself: an MCP
\* tools/list, a blocked LLM call
GatewayCall(evt) ==
    \/ Classifier(evt) = "fLLM" /\ BlockedAtGateway(ClassifyData(evt))
    \/ Classifier(evt) \in {"fMCP OAuth2", "fMCP Keyless"}
          /\ parseMCP(evt.entrypointRequest).method = "tools/list"

\* four legs caller -> gateway -> callee -> gateway -> caller after a boundary
FourLegChain(steps) ==
    /\ Len(steps) = 5
    /\ Shape(steps[2]) = <<"arrow", "agent", "gateway">>
    /\ steps[3].from = "gateway"
    /\ steps[3].to \notin {"agent", "gateway"}
    /\ Shape(steps[4]) = <<"arrow", steps[3].to, "gateway">>
    /\ Shape(steps[5]) = <<"arrow", "gateway", "agent">>

\* C31: the steps of every record that a classifier handles are one boundary
\* followed by transitions only; a currency agent call, an LLM call that
\* reached the model and an MCP tools/call get the four legs caller ->
\* gateway -> callee -> gateway -> caller, an MCP tools/list and a blocked LLM
\* call only the two legs caller -> gateway and gateway -> caller.
C31_LegsByKind ==
    [][RouteStep /\ Classifier(lastOp'.evt) # "null" =>
          /\ Len(pendingEvents') = Len(pendingEvents) + 1
          /\ NewSteps[1].type = "divider"
          /\ Len(NewSteps) >= 2
          /\ \A i \in 2..Len(NewSteps) : NewSteps[i].type = "arrow"
          /\ ProxiedCall(lastOp'.evt) => FourLegChain(NewSteps)
          /\ GatewayCall(lastOp'.evt) =>
                /\ Len(NewSteps) = 3
                /\ Shape(NewSteps[2]) = <<"arrow", "agent", "gateway">>
                /\ Shape(NewSteps[3]) = <<"arrow", "gateway", "agent">>]_vars

\* a tools/list and a currency agent call are buffered, the first with two
\* legs and the second with four
C31_Witness ==
    /\ Len(pendingEvents) = 2
    /\ pendingEvents[1].steps[1] = Divider("Tool Discovery")
    /\ Len(pendingEvents[1].steps) = 3
    /\ pendingEvents[2].uri = "/currency-agent/"
    /\ FourLegChain(pendingEvents[2].steps)
    /\ pendingEvents[2].steps[3].to = "currency"

\* the progress counts of the messages msgs start at 1 after every
\* 'live-steps' message and go up by one; every 'live-steps' message comes
\* after a progress notice
ProgressCounts(msgs) ==
    \A k \in 1..Len(msgs) :
        IF msgs[k].type = "tx-progress"
        THEN msgs[k].buffered =
                 IF k = 1 \/ msgs[k - 1].type = "live-steps" THEN 1
                 ELSE msgs[k - 1].buffered + 1
        ELSE k > 1 /\ msgs[k - 1].type = "tx-progress"

\* C32: every append sends one progress notice with the length of the buffer
\* after it, so within a cycle the counts are 1, 2, 3, ...; every
\* 'live-steps' message follows a progress notice of its cycle, and the
\* count of that notice is the number of records the flush took.
C32_ProgressCounts ==
    [][/\ Len(pendingEvents') = Len(pendingEvents) + 1 =>
              sent' = Append(sent, [type |-> "tx-progress",
                                    buffered |-> Len(pendingEvents')])
       /\ lastOp'.op = "flushBuffer" /\ pendingEvents # <<>> =>
              /\ Len(sent') = Len(sent) + 1
              /\ SubSeq(sent', 1, Len(sent)) = sent
              /\ Published.type = "live-steps"
              /\ sent[Len(sent)].type = "tx-progress"
              /\ sent[Len(sent)].buffered = Len(pendingEvents)
       /\ Len(sent') \in {Len(sent), Len(sent) + 1}
       /\ ProgressCounts(sent')]_vars

\* a cycle of one record and then a cycle of two have been published
C32_Witness ==
    \E k \in 1..(Len(sent) - 4) :
        /\ sent[k] = [type |-> "tx-progress", buffered |-> 1]
        /\ sent[k + 1].type = "live-steps"
        /\ sent[k + 2] = [type |-> "tx-progress", buffered |-> 1]
        /\ sent[k + 3] = [type |-> "tx-progress", buffered |-> 2]
        /\ sent[k + 4].type = "live-steps"

\* the step was an event of a WebSocket
WsStep == lastOp'.op \in {"connection", "closing", "close"}

\* the numbers of the messages that the step sent
NewMessages == [i \in 1..(Len(sent') - Len(sent)) |-> Len(sent) + i]

\* C33: a message is sent to exactly the WebSockets that wsClients holds and
\* that are open when it is broadcast; one that is closing is skipped and the
\* step goes on; a WebSocket never gets a message that was broadcast before
\* it connected, and one that stayed open has every message since then, once
\* each and in order.
C33_ReadyMembersOnly ==
    [][\A ws \in Subs :
          /\ ~WsStep =>
                wsClients'[ws].received =
                    wsClients[ws].received
                        \o (IF wsClients[ws].member /\ wsClients[ws].readyState = OPEN
                            THEN NewMessages ELSE <<>>)
          /\ \A i \in 1..Len(wsClients'[ws].received) :
                wsClients'[ws].received[i] > wsClients'[ws].joined
          /\ wsClients'[ws].member /\ wsClients'[ws].readyState = OPEN =>
                wsClients'[ws].received =
                    [i \in 1..(Len(sent') - wsClients'[ws].joined) |->
                        wsClients'[ws].joined + i]]_vars

\* a message was broadcast while one WebSocket was open, one was closing and
\* still in wsClients: the first has it, the second has not; the first had
\* connected after an earlier message
C33_Witness ==
    \E a, b \in Subs :
        /\ wsClients[a].member /\ wsClients[a].readyState = OPEN
        /\ wsClients[a].joined > 0
        /\ wsClients[a].received # <<>>
        /\ wsClients[b].member /\ wsClients[b].readyState = 2
        /\ wsClients[b].received # <<>>
        /\ wsClients[b].received[Len(wsClients[b].received)] < Len(sent)
        /\ sent[Len(sent)].type = "live-steps"

\* C34: an event of a WebSocket, wherever it falls among the records and
\* timers, changes neither seen, the correlation table, the buffer, the
\* timers nor the messages sent; what every other step sends follows from
\* the buffer alone, whether WebSockets are absent, open or closing, so the
\* sequence of messages is the same for every schedule of WebSockets.
C34_SubscribersApart ==
    [][/\ WsStep => UNCHANGED server
       /\ ~WsStep =>
              sent' = IF Len(pendingEvents') = Len(pendingEvents) + 1
                      THEN Append(sent, [type |-> "tx-progress",
                                         buffered |-> Len(pendingEvents')])
                      ELSE IF lastOp'.op = "flushBuffer" /\ pendingEvents # <<>>
                      THEN Append(sent, LiveSteps(pendingEvents, a2aPayloads))
                      ELSE sent]_vars

\* a transaction has been published while WebSockets connected and closed
\* during its cycle, one of them between the terminal record and the flush
C34_Witness ==
    /\ lastOp.op = "flushBuffer"
    /\ sent[Len(sent)].type = "live-steps"
    /\ sent[Len(sent)].apiName = "Complete Flow"
    /\ \E a, b \in Subs :
          /\ ~wsClients[a].member /\ wsClients[a].readyState = 3
          /\ wsClients[a].joined = Len(sent) - 1
          /\ wsClients[a].received = <<>>
          /\ wsClients[b].member /\ wsClients[b].received = <<Len(sent)>>

\* C35: the end or failure of a reporter connection, and the accepting of a
\* new one, leave seen, the correlation table, the buffer, the timers and the
\* messages as they are: a pending timer still flushes the buffer and
\* publishes it, with or without an open connection, and a record that
\* arrives on a later connection with an id that seen holds is dropped as a
\* duplicate.
C35_EngineOutlivesConnection ==
    [][/\ lastOp'.op \in {"end", "connect"} => UNCHANGED server
       /\ lastOp'.op = "flushBuffer" /\ pendingEvents # <<>> =>
              /\ pendingEvents' = <<>>
              /\ sent' = Append(sent, LiveSteps(pendingEvents, a2aPayloads))
       /\ pendingEvents # <<>> => \E t \in timers : t.id = bufferTimeout
       /\ lastOp'.op = "processEvent" /\ ~lastOp'.a2a /\ lastOp'.wasSeen =>
              UNCHANGED server]_vars

\* a terminal record has been flushed while no connection was open; seen
\* still holds its id and the correlation table the half of another exchange
C35_Witness ==
    /\ lastOp.op = "flushBuffer"
    /\ \A c \in Conns : ~sockets[c].open
    /\ sent[Len(sent)].type = "live-steps"
    /\ sent[Len(sent)].apiName = "Complete Flow"
    /\ seen = <<ReqId(1)>>
    /\ A2AGet(a2aPayloads, ReqId(2)).request = BodyA2APublish

\* how many of the steps are the boundary called label
Boundaries(steps, label) ==
    Cardinality({k \in 1..Len(steps) : steps[k] = Divider(label)})

\* the terminal entries of the buffer
Terminals(events) == {i \in 1..Len(events) : IsAgentEntry(events[i])}

\* C36: a flush takes the whole buffer and empties it in one step, and the
\* transaction it publishes has something of every record it took: the steps
\* of each inner record, and a request block and a response block for each
\* terminal record, also when the buffer holds several; no record is taken
\* by two flushes.
C36_EveryRecordPublishedOnce ==
    [][lastOp'.op = "flushBuffer" /\ pendingEvents # <<>> =>
          /\ pendingEvents' = <<>>
          /\ flushLog'[Len(flushLog')].events = pendingEvents
          /\ \A f \in 1..Len(flushLog) :
                RequestIdsOf(flushLog[f].events) \cap RequestIdsOf(pendingEvents) = {}
          /\ \A i \in 1..Len(pendingEvents) :
                ~IsAgentEntry(pendingEvents[i]) =>
                    Contains(Published.steps, pendingEvents[i].steps)
          /\ Boundaries(Published.steps, "User Request")
                 = Cardinality(Terminals(pendingEvents))
          /\ Boundaries(Published.steps, "Agent Response")
                 = Cardinality(Terminals(pendingEvents))]_vars

\* the handle names a task that is waiting in the timer queue
IsArmed(handle) == handle # 0 /\ \E t \in timers : t.id = handle

\* C37: between handlers the buffer is non-empty exactly when the safety
\* timer is armed, and the grace timer is armed only when the buffer holds a
\* terminal record; every waiting task is one of the two, so no flush has
\* run on an empty buffer and no 'live-steps' message has an empty step list.
C37_TimersFollowBuffer ==
    /\ pendingEvents # <<>> <=> IsArmed(bufferTimeout)
    /\ bufferTimeout # 0 => IsArmed(bufferTimeout)
    /\ flushTimer # 0 => IsArmed(flushTimer) /\ HasAgent(pendingEvents)
    /\ \A t \in timers : t.id \in {bufferTimeout, flushTimer}
    /\ \A f \in Flushes : flushLog[f].events # <<>>
    /\ \A k \in 1..Len(sent) :
          sent[k].type = "live-steps" => sent[k].steps # <<>>

\* a grace flush has published a transaction and the next cycle holds inner
\* records only: the safety timer is armed and the grace timer is not
C37_Witness ==
    /\ \E f \in Flushes : flushLog[f].flushTimer # 0 /\ flushLog[f].published # 0
    /\ pendingEvents # <<>>
    /\ ~HasAgent(pendingEvents)
    /\ IsArmed(bufferTimeout)
    /\ flushTimer = 0

\* the step pushes a record onto the buffer
PushStep == Len(pendingEvents') = Len(pendingEvents) + 1

\* the waiting task of a handle, with the time it has waited
TaskOf(queue, handle) == {t \in queue : t.id = handle}

\* C38: the push of a non-terminal record leaves the grace timer as it is,
\* armed or not and with the time it has already waited, and a push onto a
\* non-empty buffer leaves the safety timer as it is: the deadline of the
\* safety timer is that of the first record of the cycle, and the flush the
\* grace timer runs takes the inner records pushed meanwhile.
C38_InnerPushKeepsTimers ==
    [][/\ PushStep /\ ~IsAgentEntry(pendingEvents'[Len(pendingEvents')]) =>
            /\ flushTimer' = flushTimer
            /\ {t \in timers' : IsGraceTask(t)} = {t \in timers : IsGraceTask(t)}
       /\ PushStep /\ pendingEvents # <<>> =>
            /\ bufferTimeout' = bufferTimeout
            /\ TaskOf(timers', bufferTimeout') = TaskOf(timers, bufferTimeout)
            /\ {t \in timers' : IsSafetyTask(t)} = {t \in timers : IsSafetyTask(t)}
       /\ PushStep /\ pendingEvents = <<>> =>
            TaskOf(timers', bufferTimeout')
               = {[id |-> bufferTimeout', delay |-> MAX_WAIT_MS, elapsed |-> 0]}
       /\ lastOp'.op = "flushBuffer" =>
            flushLog'[Len(flushLog')].events = pendingEvents]_vars

\* an inner record was pushed while the grace timer waited, and the grace
\* timer flushed both FLUSH_DELAY_MS after the terminal record
C38_Witness ==
    \E f \in Flushes :
        /\ IsGraceTask(flushLog[f].timer)
        /\ Len(flushLog[f].events) = 2
        /\ flushLog[f].events[1].isAgent
        /\ ~flushLog[f].events[2].isAgent
        /\ flushLog[f].events[1].age = FLUSH_DELAY_MS
        /\ flushLog[f].events[2].age < FLUSH_DELAY_MS
        /\ flushLog[f].events[2].age > 0

\* the ids that the half-evictions have removed
Evicted == {ReqId(n) : n \in 1..(SEEN_EVICT * seenEvictions)}
              \ {seen[i] : i \in 1..Len(seen)}

\* seen after issued new ids and evictions half-evictions: the ids still
\* held from the first arrivals are the newest of them, in the order of
\* arrival, and the ids behind them are ids that came in again
WindowOf(set, issued, evictions) ==
    LET base == SEEN_EVICT * evictions
        kept == issued - base
    IN  /\ kept >= 0
        /\ Len(set) >= kept
        /\ SubSeq(set, 1, kept) = [i \in 1..kept |-> ReqId(base + i)]
        /\ \A i \in (kept + 1)..Len(set) :
              set[i] \in {ReqId(n) : n \in 1..base}
        /\ evictions > 0 => kept >= SEEN_MAX + 1 - SEEN_EVICT
        /\ evictions = 0 => Len(set) = issued

\* C39: seen holds the ids first seen most recently. A half-eviction removes
\* the SEEN_EVICT ids that were added first and keeps the others, the
\* SEEN_MAX + 1 - SEEN_EVICT added last, so an id is still held while fewer
\* than that many other ids have been added after it, and a record that
\* carries it again is dropped; a record that carries an id that was removed
\* is classified and pushed onto the buffer, and its id is added again.
C39_RecencyWindow ==
    [][/\ seen' # seen => WindowOf(seen', idsIssued', seenEvictions')
       /\ lastOp'.op = "processEvent" /\ lastOp'.wasSeen => UNCHANGED server
       /\ seenEvictions' # seenEvictions =>
             /\ seenEvictions' = seenEvictions + 1
             /\ Len(seen) = SEEN_MAX
             /\ Len(seen') = SEEN_MAX + 1 - SEEN_EVICT
             /\ seen' = SubSeq(seen, SEEN_EVICT + 1, SEEN_MAX)
                            \o <<ReqId(idsIssued')>>
       /\ lastOp'.op = "processEvent" /\ ~lastOp'.wasSeen /\ idsIssued' = idsIssued =>
             /\ seenEvictions > 0
             /\ seen' = Append(seen, seen'[Len(seen')])
             /\ seen'[Len(seen')] \in Evicted
             /\ pendingEvents' = Append(pendingEvents, pendingEvents'[Len(pendingEvents')])
             /\ pendingEvents'[Len(pendingEvents')].requestId = seen'[Len(seen')]
             /\ pendingEvents'[Len(pendingEvents')].steps
                    = classify(ToolCallEvent(seen'[Len(seen')], 1))]_vars

\* the first id was dropped by the half-eviction, came in again on a tool
\* call and is buffered a second time; then the oldest id that seen kept,
\* which SEEN_MAX - SEEN_EVICT other ids had followed, came in again and was
\* dropped
C39_Witness ==
    /\ seenEvictions = 1
    /\ Len(seen) = SEEN_MAX + 2 - SEEN_EVICT
    /\ seen[1] = ReqId(SEEN_EVICT + 1)
    /\ seen[Len(seen)] = ReqId(1)
    /\ Len(pendingEvents) = WindowIds + 1
    /\ pendingEvents[1].requestId = ReqId(1)
    /\ pendingEvents[Len(pendingEvents)].requestId = ReqId(1)
    /\ lastOp.op = "processEvent"
    /\ lastOp.wasSeen

====
